---- MODULE Spec2Model ----
(***************************************************************************)
(* Video frame reassembly core of the RTP interceptor (package videoframe):*)
(* packet buffer, frame assembler, the three reference finders and the     *)
(* receiver pipeline that drives them.                                     *)
(***************************************************************************)
EXTENDS Integers, Sequences, FiniteSets, TLC

VARIABLES
  buffer,    \* VideoPacketBuffer.buffer
  result,    \* InsertResult.Frames of the last InsertPacket call
  kind,      \* which component has been constructed to be driven alone
  snf,       \* the SeqNumOnlyRefFinder
  fif,       \* the FrameIdOnlyRefFinder
  vpf,       \* the VP8RefFinder
  out,       \* the frames returned by the last ManageFrame call
  emitted,   \* history: ids of the frames returned by the calls before the last
  calls,     \* history: number of calls so far
  lastOut,   \* history: the last frame returned by the calls before the last
  order,     \* the order in which the frames to stash arrive
  arg,       \* history: the input of the last call
  ret,       \* what the last call of a function returned
  unwrapper, \* the unwrapper driven alone
  next,      \* the sender's next sequence number to arrive in order
  held,      \* sequence numbers the network holds back for later delivery
  dups,      \* number of packets delivered a second time so far
  lastSeq,   \* history: sequence number given to the last InsertPacket call
  wasDup,    \* history: the last InsertPacket call got a packet delivered before
  returnedBefore, \* history: first sequence numbers of the frames returned by earlier calls
  stream,    \* which packet stream the sender sends
  streams,   \* ReceiverInterceptor.streams: the SSRCs that have an entry
  interceptor, \* the ReceiverInterceptor constructed, nil before
  mutex,     \* ReceiverInterceptor.streamsMu: the goroutine that holds it, nil when free
  procs,     \* per goroutine: where it stands in its call and its local variables
  states,    \* the streamState objects of the streams read concurrently
  seqUnwrapper,   \* streamState.seqUnwrapper
  frameIDCounter, \* VideoFrameAssembler.frameIDCounter
  published, \* the frames the last Read set under EncodedFramesKey
  history    \* history: per Read, the packet, the frames completed and the frames published

bufVars == <<buffer, result>>
finderVars == <<kind, snf, fif, vpf, out, emitted, calls, lastOut, order, arg>>
callVars == <<ret, unwrapper>>
streamVars == <<next, held, dups, lastSeq, wasDup, returnedBefore>>
recvVars == <<stream, streams, interceptor, mutex, procs, states,
              seqUnwrapper, frameIDCounter, published, history>>
vars == <<buffer, result, kind, snf, fif, vpf, out, emitted, calls, lastOut, order, arg,
          ret, unwrapper,
          next, held, dups, lastSeq, wasDup, returnedBefore,
          stream, streams, interceptor, mutex, procs, states,
          seqUnwrapper, frameIDCounter, published, history>>

(***************************************************************************)
(* Shared types                                                            *)
(***************************************************************************)

\* A nil pointer (*BufferedPacket, *RTPVideoHeader).
Nil == [nil |-> TRUE]

FrameTypeKey == 0
FrameTypeDelta == 1

NoPictureID == -1
NoTemporalIdx == -1
NoTL0PicIdx == -1

\* RTPVideoHeader
RTPVideoHeader(frameType, isFirst, isLast, pictureID, temporalIdx, tl0PicIdx) ==
  [FrameType |-> frameType,
   IsFirstPacketInFrame |-> isFirst,
   IsLastPacketInFrame |-> isLast,
   PictureID |-> pictureID,
   TemporalIdx |-> temporalIdx,
   TL0PicIdx |-> tl0PicIdx]

\* BufferedPacket
BufferedPacket(seqNum, timestamp, payload, videoHeader, markerBit) ==
  [SequenceNumber |-> seqNum,
   Timestamp |-> timestamp,
   Payload |-> payload,
   VideoHeader |-> videoHeader,
   Continuous |-> FALSE,
   MarkerBit |-> markerBit]

\* Go's remainder: truncated towards zero, so it has the sign of the dividend.
GoRem(a, b) == IF a >= 0 THEN a % b ELSE -((-a) % b)

(***************************************************************************)
(* VideoPacketBuffer                                                       *)
(***************************************************************************)

\* The buffer size the model runs with: the smallest size NewVideoPacketBuffer accepts.
size == 64

\* NewVideoPacketBuffer: size slots, all nil.
NewVideoPacketBuffer == [i \in 0..(size - 1) |-> Nil]

\* seqNumToIndex that turns a negative remainder into its absolute value.
seqNumToIndex_Negated(seqNum) ==
  LET idx == GoRem(seqNum, size)
  IN  IF idx < 0 THEN -idx ELSE idx

seqNumToIndex(seqNum) ==
  LET idx == GoRem(seqNum, size)
  IN  IF idx < 0 THEN idx + size ELSE idx

\* pkt.VideoHeader != nil && pkt.VideoHeader.IsFirstPacketInFrame
IsFirstPkt(pkt) == pkt.VideoHeader # Nil /\ pkt.VideoHeader.IsFirstPacketInFrame

\* pkt.VideoHeader != nil && pkt.VideoHeader.IsLastPacketInFrame
IsLastPkt(pkt) == pkt.VideoHeader # Nil /\ pkt.VideoHeader.IsLastPacketInFrame

potentialNewFrame(buf, seqNum) ==
  LET pkt == buf[seqNumToIndex(seqNum)]
      prevPkt == buf[seqNumToIndex(seqNum - 1)]
  IN  IF pkt = Nil THEN FALSE
      ELSE IF pkt.SequenceNumber # seqNum THEN FALSE
      ELSE IF IsFirstPkt(pkt) THEN TRUE
      ELSE IF prevPkt = Nil THEN FALSE
      ELSE IF prevPkt.SequenceNumber # seqNum - 1 THEN FALSE
      ELSE IF prevPkt.Timestamp # pkt.Timestamp THEN FALSE
      ELSE prevPkt.Continuous

\* slotMissing without the comparison of the stored sequence number: a slot that
\* holds any packet counts as holding seq.
slotMissing_NilOnly(buf, seq) ==
  buf[seqNumToIndex(seq)] = Nil

\* The slot for seq is nil or holds another packet (extractFrame's "Missing packet").
slotMissing(buf, seq) ==
  buf[seqNumToIndex(seq)] = Nil \/ buf[seqNumToIndex(seq)].SequenceNumber # seq

\* The backward walk of extractFrame from endSeqNum. Step k looks at endSeqNum - k
\* and the walk stops at the first k whose slot is missing (no frame) or starts a
\* frame (found); after size + 1 steps without a stop the size guard gives up.
extractFrameStart(buf, endSeqNum) ==
  LET stops == {k \in 0..size : \/ slotMissing(buf, endSeqNum - k)
                                \/ IsFirstPkt(buf[seqNumToIndex(endSeqNum - k)])}
  IN  IF stops = {} THEN [found |-> FALSE, start |-> endSeqNum - size - 1]
      ELSE LET k0 == CHOOSE k \in stops : \A j \in stops : k <= j
           IN  [found |-> ~slotMissing(buf, endSeqNum - k0), start |-> endSeqNum - k0]

\* The forward pass of extractFrame over startSeqNum..endSeqNum: the packets in
\* sequence order, or <<>> (nil) when one is missing or not continuous.
extractFramePackets(buf, startSeqNum, endSeqNum) ==
  IF \E seq \in startSeqNum..endSeqNum :
       slotMissing(buf, seq) \/ ~buf[seqNumToIndex(seq)].Continuous
    THEN <<>>
    ELSE [j \in 1..(endSeqNum - startSeqNum + 1) |-> buf[seqNumToIndex(startSeqNum + j - 1)]]

extractFrame(buf, endSeqNum) ==
  LET w == extractFrameStart(buf, endSeqNum)
  IN  IF ~w.found THEN <<>>
      ELSE extractFramePackets(buf, w.start, endSeqNum)

\* for _, pkt := range frame { b.buffer[idx] = nil }
clearPackets(buf, frame) ==
  [i \in DOMAIN buf |->
     IF \E k \in DOMAIN frame : seqNumToIndex(frame[k].SequenceNumber) = i
       THEN Nil ELSE buf[i]]

\* One iteration of the scan loop of findFrames, on currentSeq.
findFramesStep(st, currentSeq) ==
  IF ~potentialNewFrame(st.buffer, currentSeq) THEN st
  ELSE LET index == seqNumToIndex(currentSeq)
       IN  IF st.buffer[index] = Nil THEN st
           ELSE LET marked == [st.buffer EXCEPT ![index].Continuous = TRUE]
                IN  IF IsLastPkt(marked[index])
                      THEN LET frame == extractFrame(marked, currentSeq)
                           IN  IF Len(frame) > 0
                                 THEN [buffer |-> clearPackets(marked, frame),
                                       Frames |-> Append(st.Frames, frame)]
                                 ELSE [buffer |-> marked, Frames |-> st.Frames]
                      ELSE [buffer |-> marked, Frames |-> st.Frames]

\* Iterations lo..hi of the scan loop of findFrames, in ascending order. The range
\* is halved and the first half is evaluated (its slot array compared) before the
\* second starts, which keeps the evaluation shallow; the steps and their order
\* are the loop's.
RECURSIVE findFramesLoop(_, _, _, _)
findFramesLoop(st, seqNum, lo, hi) ==
  IF lo = hi THEN findFramesStep(st, seqNum - (size \div 2) + lo)
  ELSE LET mid == (lo + hi) \div 2
           firstHalf == findFramesLoop(st, seqNum, lo, mid)
       IN  IF DOMAIN firstHalf.buffer = DOMAIN st.buffer
             THEN findFramesLoop(firstHalf, seqNum, mid + 1, hi)
             ELSE firstHalf

findFrames(buf, seqNum) ==
  findFramesLoop([buffer |-> buf, Frames |-> <<>>], seqNum, 0, size - 1)

\* InsertPacket that stores the packet with the Continuous field it came with.
InsertPacket_KeepContinuous(buf, pkt) ==
  LET seqNum == pkt.SequenceNumber
      index == seqNumToIndex(seqNum)
  IN  IF buf[index] # Nil /\ buf[index].SequenceNumber = seqNum
        THEN [buffer |-> buf, Frames |-> <<>>]
        ELSE findFrames([buf EXCEPT ![index] = pkt], seqNum)

\* InsertPacket: the buffer after the call and InsertResult.Frames.
InsertPacket(buf, pkt) ==
  LET seqNum == pkt.SequenceNumber
      index == seqNumToIndex(seqNum)
  IN  IF buf[index] # Nil /\ buf[index].SequenceNumber = seqNum
        THEN [buffer |-> buf, Frames |-> <<>>]
        ELSE findFrames([buf EXCEPT ![index] = [pkt EXCEPT !.Continuous = FALSE]],
                        seqNum)

(***************************************************************************)
(* EncodedFrame and VideoFrameAssembler                                    *)
(***************************************************************************)

\* References [5]int64, zero-valued.
NoReferences == [i \in 0..4 |-> 0]

\* EncodedFrame (Width and Height are never written and are left out). The
\* reference finders read FirstSeqNumUnwrapped and LastSeqNumUnwrapped;
\* AssembleFrame does not write them and leaves the zero value.
EncodedFrame(id, firstSeqNum, lastSeqNum, firstUnwrapped, lastUnwrapped, timestamp, frameType, data) ==
  [ID |-> id,
   FirstSeqNum |-> firstSeqNum,
   LastSeqNum |-> lastSeqNum,
   FirstSeqNumUnwrapped |-> firstUnwrapped,
   LastSeqNumUnwrapped |-> lastUnwrapped,
   Timestamp |-> timestamp,
   FrameType |-> frameType,
   Data |-> data,
   NumReferences |-> 0,
   References |-> NoReferences]

RECURSIVE ConcatPayloads(_, _)
\* data = append(data, pkt.Payload...) over packets[1..n]
ConcatPayloads(packets, n) ==
  IF n = 0 THEN <<>> ELSE ConcatPayloads(packets, n - 1) \o packets[n].Payload

\* VideoFrameAssembler.AssembleFrame with frameID = frameIDCounter.Add(1) - 1.
AssembleFrame(packets, frameID) ==
  IF Len(packets) = 0 THEN Nil
  ELSE LET firstPkt == packets[1]
           lastPkt == packets[Len(packets)]
       IN  EncodedFrame(frameID,
                        firstPkt.SequenceNumber % 65536,
                        lastPkt.SequenceNumber % 65536,
                        0, 0,
                        firstPkt.Timestamp,
                        IF firstPkt.VideoHeader # Nil THEN firstPkt.VideoHeader.FrameType
                        ELSE FrameTypeKey,
                        ConcatPayloads(packets, Len(packets)))

(***************************************************************************)
(* Stash helpers shared by the reference finders                           *)
(***************************************************************************)

maxStashedFrames == 100

\* s without its i-th element: append(s[:i], s[i+1:]...).
RemoveAt(s, i) == [j \in 1..(Len(s) - 1) |-> IF j < i THEN s[j] ELSE s[j + 1]]

\* The two sequences hold the same elements, each as often.
SameElements(a, b) ==
  /\ Len(a) = Len(b)
  /\ \A j \in DOMAIN a :
       Cardinality({i \in DOMAIN a : a[i] = a[j]}) = Cardinality({i \in DOMAIN b : b[i] = a[j]})

\* sort.Slice on a stash that was sorted by Key before e was appended: the
\* orders it may leave. A slice of up to 12 elements is sorted by insertion:
\* e moves left past every entry whose key is greater than its own. sort.Slice
\* is not stable: on a longer slice the entries come out in ascending order
\* of their keys, those with equal keys in any order. key maps an entry to the
\* value the less function compares.
SortAppended(s, e, key) ==
  LET n == Cardinality({j \in 1..Len(s) : key[s[j]] <= key[e]})
      len == Len(s) + 1
      inserted == [j \in 1..len |->
                     IF j <= n THEN s[j] ELSE IF j = n + 1 THEN e ELSE s[j - 1]]
      distinct == \A i, j \in 1..len : i # j => key[inserted[i]] # key[inserted[j]]
  IN  IF len <= 12 \/ distinct THEN {inserted}
      ELSE {t \in [1..len -> {inserted[j] : j \in 1..len}] :
              /\ SameElements(t, inserted)
              /\ \A j \in 1..(len - 1) : key[t[j]] <= key[t[j + 1]]}

\* LimitStash that drops the entry at the last index.
LimitStash_Last(s) == IF Len(s) >= maxStashedFrames THEN SubSeq(s, 1, Len(s) - 1) ELSE s

\* The stash size limit of stashFrame: the entry at index 0 is dropped when full.
LimitStash(s) == IF Len(s) >= maxStashedFrames THEN Tail(s) ELSE s

(***************************************************************************)
(* SeqNumOnlyRefFinder                                                     *)
(***************************************************************************)

NewSeqNumOnlyRefFinder ==
  [lastSeqNumGOP |-> -1,
   lastFrameFirstSeqNum |-> -1,
   lastFrameLastSeqNum |-> -1,
   gotInitialFrame |-> FALSE,
   stashedFrames |-> <<>>]

\* stashFrame: the finders it may leave, one per order the sort may leave; the
\* other fields stay as they are.
SeqNumOnly_stashFrame(f, frame, header) ==
  LET kept == LimitStash(f.stashedFrames)
      entry == [frame |-> frame, header |-> header]
      key == [x \in {entry} \cup {kept[j] : j \in DOMAIN kept} |-> x.frame.FirstSeqNumUnwrapped]
  IN  [lastSeqNumGOP : {f.lastSeqNumGOP},
       lastFrameFirstSeqNum : {f.lastFrameFirstSeqNum},
       lastFrameLastSeqNum : {f.lastFrameLastSeqNum},
       gotInitialFrame : {f.gotInitialFrame},
       stashedFrames : SortAppended(kept, entry, key)]

\* SeqNumOnly_resolve with the frame's own first sequence number as reference.
SeqNumOnly_resolve_SelfRef(f, frame) ==
  [frame EXCEPT !.ID = frame.FirstSeqNumUnwrapped,
                !.NumReferences = 1,
                !.References[0] = frame.FirstSeqNumUnwrapped]

\* A frame that continues the last processed one: its id, its one reference.
SeqNumOnly_resolve(f, frame) ==
  [frame EXCEPT !.ID = frame.FirstSeqNumUnwrapped,
                !.NumReferences = 1,
                !.References[0] = f.lastFrameFirstSeqNum]

\* SeqNumOnly_advance that takes every frame for a single packet.
SeqNumOnly_advance_OnePacket(f, frame) ==
  [f EXCEPT !.lastFrameFirstSeqNum = frame.FirstSeqNumUnwrapped,
            !.lastFrameLastSeqNum = frame.FirstSeqNumUnwrapped]

\* The state update that follows a processed frame.
SeqNumOnly_advance(f, frame) ==
  [f EXCEPT !.lastFrameFirstSeqNum = frame.FirstSeqNumUnwrapped,
            !.lastFrameLastSeqNum = frame.LastSeqNumUnwrapped]

RECURSIVE SeqNumOnly_tryResolveStashedFrames(_)
SeqNumOnly_tryResolveStashedFrames(f) ==
  LET hits == {i \in 1..Len(f.stashedFrames) :
                 f.stashedFrames[i].frame.FirstSeqNumUnwrapped = f.lastFrameLastSeqNum + 1}
  IN  IF hits = {} THEN [f |-> f, out |-> <<>>]
      ELSE LET i == CHOOSE h \in hits : \A g \in hits : h <= g
               frame == f.stashedFrames[i].frame
               rest == SeqNumOnly_tryResolveStashedFrames(
                         [SeqNumOnly_advance(f, frame) EXCEPT
                            !.stashedFrames = RemoveAt(f.stashedFrames, i)])
           IN  [f |-> rest.f, out |-> <<SeqNumOnly_resolve(f, frame)>> \o rest.out]

\* clearStashedFramesBefore that leaves the stash as it is.
SeqNumOnly_clearStashedFramesBefore_Keep(f, seqNum) == f

SeqNumOnly_clearStashedFramesBefore(f, seqNum) ==
  [f EXCEPT !.stashedFrames =
     SelectSeq(f.stashedFrames, LAMBDA e : e.frame.FirstSeqNumUnwrapped >= seqNum)]

\* SeqNumOnlyRefFinder.ClearTo: f.clearStashedFramesBefore(seqNum)
SeqNumOnly_ClearTo(f, seqNum) == SeqNumOnly_clearStashedFramesBefore(f, seqNum)

SeqNumOnly_handleKeyframe(f, frame, header) ==
  LET key == [frame EXCEPT !.ID = frame.FirstSeqNumUnwrapped, !.NumReferences = 0]
      f1 == [f EXCEPT !.lastSeqNumGOP = frame.FirstSeqNumUnwrapped,
                      !.lastFrameFirstSeqNum = frame.FirstSeqNumUnwrapped,
                      !.lastFrameLastSeqNum = frame.LastSeqNumUnwrapped,
                      !.gotInitialFrame = TRUE]
      r == SeqNumOnly_tryResolveStashedFrames(
             SeqNumOnly_clearStashedFramesBefore(f1, frame.FirstSeqNumUnwrapped))
  IN  {[f |-> r.f, out |-> <<key>> \o r.out]}

SeqNumOnly_handleDeltaFrame(f, frame, header) ==
  IF ~f.gotInitialFrame
    THEN [f : SeqNumOnly_stashFrame(f, frame, header), out : {<<>>}]
  ELSE IF frame.FirstSeqNumUnwrapped = f.lastFrameLastSeqNum + 1
    THEN LET r == SeqNumOnly_tryResolveStashedFrames(SeqNumOnly_advance(f, frame))
         IN  {[f |-> r.f, out |-> <<SeqNumOnly_resolve(f, frame)>> \o r.out]}
  ELSE IF frame.FirstSeqNumUnwrapped < f.lastSeqNumGOP
    THEN {[f |-> f, out |-> <<>>]}
  ELSE [f : SeqNumOnly_stashFrame(f, frame, header), out : {<<>>}]

\* SeqNumOnlyRefFinder.ManageFrame: the possible outcomes, each the finder
\* after the call and the frames returned.
SeqNumOnly_ManageFrame(f, frame, header) ==
  IF frame = Nil THEN {[f |-> f, out |-> <<>>]}
  ELSE IF frame.FrameType = FrameTypeKey THEN SeqNumOnly_handleKeyframe(f, frame, header)
  ELSE SeqNumOnly_handleDeltaFrame(f, frame, header)

(***************************************************************************)
(* Picture id and TL0PICIDX unwrappers                                     *)
(***************************************************************************)

pictureIDModulus == 32768
tl0PicIdxModulus == 256

\* The zero value of pictureIDUnwrapper and of tl0PicIdxUnwrapper.
NewUnwrapper == [lastUnwrapped |-> 0, initialized |-> FALSE]

\* UnwrapMod that takes every value as it comes, without following a wrap.
UnwrapMod_NoWrap(u, value, modulus) ==
  [u |-> [lastUnwrapped |-> value % modulus, initialized |-> TRUE],
   value |-> value % modulus]

\* The body shared by pictureIDUnwrapper.Unwrap and tl0PicIdxUnwrapper.Unwrap,
\* which differ in the modulus only: the unwrapper after the call and the value returned.
UnwrapMod(u, value, modulus) ==
  IF value < 0 THEN [u |-> u, value |-> -1]
  ELSE LET v == value % modulus
           lastWrapped == u.lastUnwrapped % modulus
           d0 == v - lastWrapped
           diff == IF d0 > modulus \div 2 THEN d0 - modulus
                   ELSE IF d0 < -(modulus \div 2) THEN d0 + modulus
                   ELSE d0
       IN  IF ~u.initialized
             THEN [u |-> [lastUnwrapped |-> v, initialized |-> TRUE], value |-> v]
             ELSE [u |-> [u EXCEPT !.lastUnwrapped = u.lastUnwrapped + diff],
                   value |-> u.lastUnwrapped + diff]

pictureID_Unwrap(u, pictureID) == UnwrapMod(u, pictureID, pictureIDModulus)

tl0PicIdx_Unwrap(u, tl0PicIdx) == UnwrapMod(u, tl0PicIdx, tl0PicIdxModulus)

(***************************************************************************)
(* FrameIdOnlyRefFinder                                                    *)
(***************************************************************************)

NewFrameIdOnlyRefFinder == [unwrapper |-> NewUnwrapper]

\* frame.NumReferences / frame.References[0] by frame type, from frame.ID.
SetIdReferences(frame) ==
  IF frame.FrameType = FrameTypeKey
    THEN [frame EXCEPT !.NumReferences = 0]
    ELSE [frame EXCEPT !.NumReferences = 1, !.References[0] = frame.ID - 1]

FrameIdOnly_ManageFrame(f, frame, header) ==
  IF frame = Nil \/ header = Nil THEN [f |-> f, out |-> <<>>]
  ELSE IF header.PictureID = NoPictureID THEN [f |-> f, out |-> <<frame>>]
  ELSE LET w == pictureID_Unwrap(f.unwrapper, header.PictureID)
       IN  IF w.value < 0 THEN [f |-> [unwrapper |-> w.u], out |-> <<>>]
           ELSE [f |-> [unwrapper |-> w.u],
                 out |-> <<SetIdReferences([frame EXCEPT !.ID = w.value])>>]

\* FrameIdOnlyRefFinder.ClearTo: the finder keeps no stash; nothing changes.
FrameIdOnly_ClearTo(f, pictureID) == f

(***************************************************************************)
(* VP8RefFinder                                                            *)
(*                                                                         *)
(* getReferences ranges over the layerInfo map when it falls back to "any  *)
(* available base layer"; Go leaves the iteration order of a map           *)
(* unspecified, so the operators below return the SET of outcomes a call   *)
(* can have: pairs of the finder after the call and the frames returned.   *)
(***************************************************************************)

maxTemporalLayers == 4
maxTL0History == 10

\* var info [maxTemporalLayers]int64
NoLayers == [t \in 0..(maxTemporalLayers - 1) |-> 0]

NewVP8RefFinder ==
  [pictureIDUnwrapper |-> NewUnwrapper,
   tl0Unwrapper |-> NewUnwrapper,
   layerInfo |-> [k \in {} |-> NoLayers],
   lastPictureID |-> -1,
   gotInitialFrame |-> FALSE,
   stashedFrames |-> <<>>]

\* f.layerInfo[tl0] = info
SetLayerInfo(f, tl0, info) ==
  [f EXCEPT !.layerInfo =
     [k \in (DOMAIN f.layerInfo) \cup {tl0} |-> IF k = tl0 THEN info ELSE f.layerInfo[k]]]

\* VP8_initLayerInfo storing the picture id after the key frame's.
VP8_initLayerInfo_NextPid(f, tl0, pid) ==
  SetLayerInfo(f, tl0, [NoLayers EXCEPT ![0] = pid + 2])

VP8_initLayerInfo(f, tl0, pid) ==
  SetLayerInfo(f, tl0, [NoLayers EXCEPT ![0] = pid + 1])

VP8_updateLayerInfo(f, tl0, tid, pid) ==
  LET info == IF tl0 \in DOMAIN f.layerInfo THEN f.layerInfo[tl0] ELSE NoLayers
  IN  SetLayerInfo(f, tl0, [info EXCEPT ![tid] = pid + 1])

\* for t := from; t >= 0; t-- { if info[t] != 0 { append info[t]-1; break } }
ScanLayers(info, from) ==
  LET set == {t \in 0..from : info[t] # 0}
  IN  IF set = {} THEN <<>>
      ELSE <<info[CHOOSE t \in set : \A u \in set : u <= t] - 1>>

\* The reference lists getReferences can return; the empty set when it reports !ok.
VP8_getReferences(f, pid, tl0, prevTL0, tid) ==
  IF tid = 0
    THEN IF prevTL0 \notin DOMAIN f.layerInfo THEN {}
         ELSE IF f.layerInfo[prevTL0][0] = 0 THEN {}
         ELSE {<<f.layerInfo[prevTL0][0] - 1>>}
    ELSE LET fromCurrent == IF tl0 \in DOMAIN f.layerInfo
                              THEN ScanLayers(f.layerInfo[tl0], tid - 1) ELSE <<>>
             fromPrev == IF Len(fromCurrent) # 0 THEN fromCurrent
                         ELSE IF prevTL0 \in DOMAIN f.layerInfo
                           THEN ScanLayers(f.layerInfo[prevTL0], tid) ELSE <<>>
         IN  IF Len(fromPrev) # 0 THEN {fromPrev}
             ELSE {<<f.layerInfo[k][0] - 1>> :
                     k \in {j \in DOMAIN f.layerInfo : f.layerInfo[j][0] # 0}}

\* frame.NumReferences = len(refs); frame.References[i] = ref for i < 5
SetReferences(frame, refs) ==
  [frame EXCEPT !.NumReferences = Len(refs),
                !.References = [i \in 0..4 |-> IF i < Len(refs) THEN refs[i + 1]
                                               ELSE frame.References[i]]]

\* tid clamped to maxTemporalLayers - 1
ClampTid(header) ==
  IF header.TemporalIdx >= maxTemporalLayers THEN maxTemporalLayers - 1
  ELSE header.TemporalIdx

\* stashFrame: the finders it may leave, one per order the sort may leave; the
\* other fields stay as they are.
VP8_stashFrame(f, frame, header, unwrappedPID, unwrappedTL0) ==
  LET kept == LimitStash(f.stashedFrames)
      entry == [frame |-> frame, header |-> header,
                unwrappedPID |-> unwrappedPID, unwrappedTL0 |-> unwrappedTL0]
      key == [x \in {entry} \cup {kept[j] : j \in DOMAIN kept} |-> x.unwrappedPID]
  IN  [pictureIDUnwrapper : {f.pictureIDUnwrapper},
       tl0Unwrapper : {f.tl0Unwrapper},
       layerInfo : {f.layerInfo},
       lastPictureID : {f.lastPictureID},
       gotInitialFrame : {f.gotInitialFrame},
       stashedFrames : SortAppended(kept, entry, key)]

VP8_clearOldState(f, currentTL0) ==
  [f EXCEPT !.layerInfo =
              [k \in {j \in DOMAIN f.layerInfo : ~(currentTL0 - j > maxTL0History)} |->
                 f.layerInfo[k]],
            !.stashedFrames =
              SelectSeq(f.stashedFrames, LAMBDA e : f.lastPictureID - e.unwrappedPID < 100)]

\* tryProcessStashedFrame that unwraps the picture id and TL0PICIDX of the
\* stashed frame's header again.
VP8_tryProcessStashedFrame_ReUnwrap(f, stashed) ==
  LET header == stashed.header
      wp == pictureID_Unwrap(f.pictureIDUnwrapper, header.PictureID)
      wt == tl0PicIdx_Unwrap(f.tl0Unwrapper, header.TL0PicIdx)
      tid == ClampTid(header)
      prevTL0 == IF tid = 0 THEN wt.value - 1 ELSE wt.value
      refsSet == VP8_getReferences(f, wp.value, wt.value, prevTL0, tid)
  IN  IF refsSet = {} THEN {[f |-> f, out |-> <<>>]}
      ELSE {[f |-> [VP8_updateLayerInfo(f, wt.value, tid, wp.value)
                      EXCEPT !.lastPictureID = wp.value,
                             !.pictureIDUnwrapper = wp.u,
                             !.tl0Unwrapper = wt.u],
             out |-> <<SetReferences([stashed.frame EXCEPT !.ID = wp.value], refs)>>] :
              refs \in refsSet}

\* The outcomes of tryProcessStashedFrame: nothing returned and nothing changed,
\* or the stashed frame with its references and the layer info updated.
VP8_tryProcessStashedFrame(f, stashed) ==
  LET header == stashed.header
      tid == ClampTid(header)
      prevTL0 == IF tid = 0 THEN stashed.unwrappedTL0 - 1 ELSE stashed.unwrappedTL0
      refsSet == VP8_getReferences(f, stashed.unwrappedPID, stashed.unwrappedTL0, prevTL0, tid)
  IN  IF \/ header.TemporalIdx = NoTemporalIdx
         \/ header.TL0PicIdx = NoTL0PicIdx
         \/ header.PictureID = NoPictureID
        THEN {[f |-> f, out |-> <<>>]}
      ELSE IF refsSet = {} THEN {[f |-> f, out |-> <<>>]}
      ELSE {[f |-> [VP8_updateLayerInfo(f, stashed.unwrappedTL0, tid, stashed.unwrappedPID)
                      EXCEPT !.lastPictureID = stashed.unwrappedPID],
             out |-> <<SetReferences([stashed.frame EXCEPT !.ID = stashed.unwrappedPID], refs)>>] :
              refs \in refsSet}

RECURSIVE VP8_tryResolveStashedFrames(_)
VP8_tryResolveStashedFrames(f) ==
  LET hits == {i \in 1..Len(f.stashedFrames) :
                 \E o \in VP8_tryProcessStashedFrame(f, f.stashedFrames[i]) : Len(o.out) > 0}
  IN  IF hits = {} THEN {[f |-> f, out |-> <<>>]}
      ELSE LET i == CHOOSE h \in hits : \A g \in hits : h <= g
           IN  UNION {
                 {[f |-> r.f, out |-> o.out \o r.out] :
                    r \in VP8_tryResolveStashedFrames(
                            [o.f EXCEPT !.stashedFrames = RemoveAt(f.stashedFrames, i)])} :
                 o \in VP8_tryProcessStashedFrame(f, f.stashedFrames[i])}

VP8_handleKeyframe(f, frame, header, pid, tl0, tid) ==
  LET f1 == [VP8_initLayerInfo(f, tl0, pid) EXCEPT !.lastPictureID = pid,
                                                   !.gotInitialFrame = TRUE]
  IN  {[f |-> r.f, out |-> <<[frame EXCEPT !.NumReferences = 0]>> \o r.out] :
         r \in VP8_tryResolveStashedFrames(VP8_clearOldState(f1, tl0))}

VP8_handleDeltaFrame(f, frame, header, pid, tl0, tid) ==
  LET prevTL0 == IF tid = 0 THEN tl0 - 1 ELSE tl0
      refsSet == VP8_getReferences(f, pid, tl0, prevTL0, tid)
  IN  IF ~f.gotInitialFrame
        THEN [f : VP8_stashFrame(f, frame, header, pid, tl0), out : {<<>>}]
      ELSE IF refsSet = {}
        THEN [f : VP8_stashFrame(f, frame, header, pid, tl0), out : {<<>>}]
      ELSE UNION {
             {[f |-> r.f, out |-> <<SetReferences(frame, refs)>> \o r.out] :
                r \in VP8_tryResolveStashedFrames(
                        [VP8_updateLayerInfo(f, tl0, tid, pid) EXCEPT !.lastPictureID = pid])} :
             refs \in refsSet}

\* VP8RefFinder.ClearTo: the stashed frames with unwrappedPID >= pictureID stay.
VP8_ClearTo(f, pictureID) ==
  [f EXCEPT !.stashedFrames = SelectSeq(f.stashedFrames, LAMBDA e : e.unwrappedPID >= pictureID)]

VP8_fallbackManageFrame(f, frame, header) ==
  IF header.PictureID # NoPictureID
    THEN LET w == pictureID_Unwrap(f.pictureIDUnwrapper, header.PictureID)
         IN  {[f |-> [f EXCEPT !.pictureIDUnwrapper = w.u],
               out |-> <<SetIdReferences([frame EXCEPT !.ID = w.value])>>]}
    ELSE {[f |-> f, out |-> <<SetIdReferences(frame)>>]}

\* VP8RefFinder.ManageFrame: the set of its possible outcomes.
VP8_ManageFrame(f, frame, header) ==
  IF frame = Nil \/ header = Nil THEN {[f |-> f, out |-> <<>>]}
  ELSE IF \/ header.TemporalIdx = NoTemporalIdx
          \/ header.TL0PicIdx = NoTL0PicIdx
          \/ header.PictureID = NoPictureID
    THEN VP8_fallbackManageFrame(f, frame, header)
  ELSE LET wp == pictureID_Unwrap(f.pictureIDUnwrapper, header.PictureID)
           wt == tl0PicIdx_Unwrap(f.tl0Unwrapper, header.TL0PicIdx)
           f1 == [f EXCEPT !.pictureIDUnwrapper = wp.u, !.tl0Unwrapper = wt.u]
           fr == [frame EXCEPT !.ID = wp.value]
           tid == ClampTid(header)
       IN  IF wp.value < 0 \/ wt.value < 0 THEN {[f |-> f1, out |-> <<>>]}
           ELSE IF frame.FrameType = FrameTypeKey /\ tid = 0
             THEN VP8_handleKeyframe(f1, fr, header, wp.value, wt.value, tid)
           ELSE VP8_handleDeltaFrame(f1, fr, header, wp.value, wt.value, tid)

(***************************************************************************)
(* RTP video header and reference finder selection                         *)
(***************************************************************************)

DetectVP8FrameType(vp8Payload) ==
  IF Len(vp8Payload) = 0 THEN FrameTypeDelta
  ELSE IF vp8Payload[1] % 2 = 0 THEN FrameTypeKey
  ELSE FrameTypeDelta

\* pkt: the fields of codecs.VP8Packet that the header is made of.
NewRTPVideoHeaderFromVP8(pkt, marker) ==
  LET isFirst == pkt.S = 1 /\ pkt.PID = 0
  IN  RTPVideoHeader(IF isFirst THEN DetectVP8FrameType(pkt.Payload) ELSE FrameTypeKey,
                     isFirst,
                     marker,
                     IF pkt.I = 1 THEN pkt.PictureID ELSE NoPictureID,
                     IF pkt.T = 1 THEN pkt.TID ELSE NoTemporalIdx,
                     IF pkt.L = 1 THEN pkt.TL0PICIDX ELSE NoTL0PicIdx)

\* SelectRefFinderType that never selects FrameIdOnlyRefFinder.
SelectRefFinderType_NoFrameIdOnly(header) ==
  IF header = Nil THEN "RefFinderSeqNumOnly"
  ELSE IF /\ header.TemporalIdx # NoTemporalIdx
          /\ header.TL0PicIdx # NoTL0PicIdx
          /\ header.PictureID # NoPictureID
    THEN "RefFinderVP8"
  ELSE "RefFinderSeqNumOnly"

SelectRefFinderType(header) ==
  IF header = Nil THEN "RefFinderSeqNumOnly"
  ELSE IF /\ header.TemporalIdx # NoTemporalIdx
          /\ header.TL0PicIdx # NoTL0PicIdx
          /\ header.PictureID # NoPictureID
    THEN "RefFinderVP8"
  ELSE IF header.PictureID # NoPictureID THEN "RefFinderFrameIDOnly"
  ELSE "RefFinderSeqNumOnly"

(***************************************************************************)
(* ReceiverInterceptor: the per-stream state and the reader                *)
(***************************************************************************)

NewSequenceUnwrapper == [lastSeq |-> 0, started |-> FALSE]

\* sequenceUnwrapper.unwrap: the unwrapper after the call and the value returned.
unwrap(u, seq) ==
  IF ~u.started THEN [u |-> [lastSeq |-> seq, started |-> TRUE], value |-> seq]
  ELSE LET d0 == seq - (u.lastSeq % 65536)
           diff == IF d0 > 32768 THEN d0 - 65536
                   ELSE IF d0 < -32768 THEN d0 + 65536
                   ELSE d0
       IN  [u |-> [u EXCEPT !.lastSeq = u.lastSeq + diff], value |-> u.lastSeq + diff]

\* getOrCreateStreamState on a stream seen for the first time.
NewStreamState ==
  [packetBuffer |-> NewVideoPacketBuffer,
   frameIDCounter |-> 0,
   seqUnwrapper |-> NewSequenceUnwrapper,
   seqNumOnlyRefFinder |-> Nil,
   frameIdOnlyRefFinder |-> Nil,
   vp8RefFinder |-> Nil]

\* selectRefFinderForFrame: the stream state with the selected finder created.
selectRefFinderForFrame(state, header) ==
  LET refType == SelectRefFinderType(header)
  IN  IF refType = "RefFinderVP8"
        THEN IF state.vp8RefFinder = Nil
               THEN [state EXCEPT !.vp8RefFinder = NewVP8RefFinder] ELSE state
      ELSE IF refType = "RefFinderFrameIDOnly"
        THEN IF state.frameIdOnlyRefFinder = Nil
               THEN [state EXCEPT !.frameIdOnlyRefFinder = NewFrameIdOnlyRefFinder] ELSE state
      ELSE IF state.seqNumOnlyRefFinder = Nil
        THEN [state EXCEPT !.seqNumOnlyRefFinder = NewSeqNumOnlyRefFinder] ELSE state

\* refFinder.ManageFrame on the selected finder: the possible outcomes, each the
\* stream state after the call and the frames returned.
ManageFrame(state, frame, header) ==
  LET refType == SelectRefFinderType(header)
      st == selectRefFinderForFrame(state, header)
  IN  IF refType = "RefFinderVP8"
        THEN {[state |-> [st EXCEPT !.vp8RefFinder = r.f], resolved |-> r.out] :
                r \in VP8_ManageFrame(st.vp8RefFinder, frame, header)}
      ELSE IF refType = "RefFinderFrameIDOnly"
        THEN LET r == FrameIdOnly_ManageFrame(st.frameIdOnlyRefFinder, frame, header)
             IN  {[state |-> [st EXCEPT !.frameIdOnlyRefFinder = r.f], resolved |-> r.out]}
      ELSE {[state |-> [st EXCEPT !.seqNumOnlyRefFinder = r.f], resolved |-> r.out] :
              r \in SeqNumOnly_ManageFrame(st.seqNumOnlyRefFinder, frame, header)}

RECURSIVE ResolveFrames(_, _, _)
\* The loop of the reader over result.Frames[1..n]: assemble, select, resolve.
ResolveFrames(state, frames, n) ==
  IF n = 0 THEN {[state |-> state, resolved |-> <<>>]}
  ELSE UNION {
         LET framePackets == frames[n]
             frame == AssembleFrame(framePackets, before.state.frameIDCounter)
             firstHeader == framePackets[1].VideoHeader
             counted == [before.state EXCEPT !.frameIDCounter = @ + 1]
         IN  {[state |-> o.state, resolved |-> before.resolved \o o.resolved] :
                o \in ManageFrame(counted, frame, firstHeader)} :
         before \in ResolveFrames(state, frames, n - 1)}

\* One Read of the reader returned by BindRemoteStream, for a packet that parses
\* as RTP and as VP8. pkt: SequenceNumber, Timestamp and Marker of rtp.Packet and
\* the fields of codecs.VP8Packet. The possible outcomes: the stream state after
\* the read, the frames InsertPacket returned, and the frames published under
\* EncodedFramesKey (none published when the list is empty).
Read(state, pkt) ==
  LET videoHeader == NewRTPVideoHeaderFromVP8(pkt, pkt.Marker)
      w == unwrap(state.seqUnwrapper, pkt.SequenceNumber)
      bufferedPkt == BufferedPacket(w.value, pkt.Timestamp, pkt.Payload, videoHeader, pkt.Marker)
      ins == InsertPacket(state.packetBuffer, bufferedPkt)
      inserted == [state EXCEPT !.seqUnwrapper = w.u, !.packetBuffer = ins.buffer]
  IN  {[state |-> o.state, Frames |-> ins.Frames, published |-> o.resolved] :
         o \in ResolveFrames(inserted, ins.Frames, Len(ins.Frames))}

(***************************************************************************)
(* Packet buffer driven directly, with arbitrary packets                   *)
(***************************************************************************)

\* RTP timestamps 1..MaxBufTs.
MaxBufTs == 2

\* Three consecutive sequence numbers and the one that shares slot 0 with 0.
BufSeqs == {0, 1, 2, size}
BufTimestamps == 1..MaxBufTs
BufHeaders ==
  {RTPVideoHeader(FrameTypeDelta, f, l, NoPictureID, NoTemporalIdx, NoTL0PicIdx) :
     f \in BOOLEAN, l \in BOOLEAN}

\* No reference finder exists while the buffer is driven alone.
NoFinders ==
  /\ kind = "none"
  /\ snf = Nil
  /\ fif = Nil
  /\ vpf = Nil
  /\ out = <<>>
  /\ emitted = {}
  /\ calls = 0
  /\ lastOut = Nil
  /\ order = "none"
  /\ arg = Nil

\* No function is called on its own.
NoCall ==
  /\ ret = Nil
  /\ unwrapper = Nil

\* No packet stream is tracked.
NoStream ==
  /\ next = 0
  /\ held = {}
  /\ dups = 0
  /\ lastSeq = -1
  /\ wasDup = FALSE
  /\ returnedBefore = {}

\* No receiver reads packets.
NoReceiver ==
  /\ stream = "none"
  /\ streams = {}
  /\ interceptor = Nil
  /\ mutex = Nil
  /\ procs = <<>>
  /\ states = <<>>
  /\ seqUnwrapper = NewSequenceUnwrapper
  /\ frameIDCounter = 0
  /\ published = <<>>
  /\ history = <<>>

BufInit ==
  /\ buffer = NewVideoPacketBuffer
  /\ result = <<>>
  /\ NoFinders
  /\ NoCall
  /\ NoStream
  /\ NoReceiver

BufInsert ==
  \E seq \in BufSeqs, ts \in BufTimestamps, h \in BufHeaders :
    LET r == InsertPacket(buffer, BufferedPacket(seq, ts, <<>>, h, FALSE))
    IN  /\ buffer' = r.buffer
        /\ result' = r.Frames
        /\ UNCHANGED <<finderVars, callVars, streamVars, recvVars>>

BufNext == BufInsert

SpecBuf == BufInit /\ [][BufNext]_vars

\* The unwrapped sequence numbers of a frame's packets are consecutive and ascending.
SeqContiguous(frame) ==
  \A k \in 1..(Len(frame) - 1) :
    frame[k + 1].SequenceNumber = frame[k].SequenceNumber + 1

\* C1: every frame returned by InsertPacket is a non-empty list of packets with
\* consecutive ascending sequence numbers, whose first packet has
\* IsFirstPacketInFrame and whose last packet has IsLastPacketInFrame.
C1_SequenceContiguity ==
  \A i \in DOMAIN result :
    /\ Len(result[i]) > 0
    /\ SeqContiguous(result[i])
    /\ IsFirstPkt(result[i][1])
    /\ IsLastPkt(result[i][Len(result[i])])

\* A call returned a frame of three packets (first, middle, last).
C1_Witness ==
  \E i \in DOMAIN result : Len(result[i]) = 3

\* C3: all packets of every frame returned by InsertPacket carry one RTP timestamp.
C3_TimestampUnity ==
  \A i \in DOMAIN result :
    \A j, k \in DOMAIN result[i] :
      result[i][j].Timestamp = result[i][k].Timestamp

(***************************************************************************)
(* One reference finder driven directly with assembled frames              *)
(***************************************************************************)

\* ManageFrame calls per behaviour.
MaxCalls == 3

\* Unwrapped sequence numbers of the frames given to SeqNumOnlyRefFinder.
FinderSeqs == 0..3
\* Picture ids, 15 bit, on both sides of the wrap.
FinderPIDs == {0, 1, 2, 32767}
\* TL0PICIDX values, 8 bit.
FinderTL0s == {0, 1, 255}
\* Temporal layers.
FinderTIDs == {0, 1}
FrameTypes == {FrameTypeKey, FrameTypeDelta}

\* A frame as the assembler hands it over: packets first..last, id not yet
\* given by a finder, no references.
AssembledFrame(first, last, frameType) ==
  EncodedFrame(0, first % 65536, last % 65536, first, last, 1, frameType, <<>>)

FrameHeader(frameType, pictureID, temporalIdx, tl0PicIdx) ==
  RTPVideoHeader(frameType, TRUE, TRUE, pictureID, temporalIdx, tl0PicIdx)

FinderInit ==
  /\ buffer = NewVideoPacketBuffer
  /\ result = <<>>
  /\ kind \in {"SeqNumOnly", "FrameIdOnly", "VP8"}
  /\ snf = IF kind = "SeqNumOnly" THEN NewSeqNumOnlyRefFinder ELSE Nil
  /\ fif = IF kind = "FrameIdOnly" THEN NewFrameIdOnlyRefFinder ELSE Nil
  /\ vpf = IF kind = "VP8" THEN NewVP8RefFinder ELSE Nil
  /\ out = <<>>
  /\ emitted = {}
  /\ calls = 0
  /\ lastOut = Nil
  /\ order = "any"
  /\ arg = Nil
  /\ NoCall
  /\ NoStream
  /\ NoReceiver

FrameIds(frames) == {frames[i].ID : i \in DOMAIN frames}

\* The history kept along every ManageFrame call: its input and its result.
Returned(frame, header, frames) ==
  /\ arg' = [frame |-> frame, header |-> header]
  /\ out' = frames
  /\ emitted' = emitted \cup FrameIds(out)
  /\ lastOut' = IF Len(out) > 0 THEN out[Len(out)] ELSE lastOut
  /\ calls' = calls + 1
  /\ UNCHANGED <<bufVars, kind, order, callVars, streamVars, recvVars>>

\* The last call was a ManageFrame call: arg holds its frame and header.
ManageFrameCalled == calls > 0 /\ "frame" \in DOMAIN arg

\* The values ClearTo is called with: unwrapped sequence numbers, picture ids.
ClearToSeqs == {1, 3}
ClearToPIDs == {1, 2}

\* The history kept along every ClearTo call: its input; it returns nothing.
Cleared(id) ==
  /\ arg' = [clearTo |-> id]
  /\ out' = <<>>
  /\ emitted' = emitted \cup FrameIds(out)
  /\ lastOut' = IF Len(out) > 0 THEN out[Len(out)] ELSE lastOut
  /\ calls' = calls + 1
  /\ UNCHANGED <<bufVars, kind, order, callVars, streamVars, recvVars>>

SeqNumOnlyClearTo ==
  /\ kind = "SeqNumOnly"
  /\ calls < MaxCalls
  /\ \E seqNum \in ClearToSeqs :
       /\ snf' = SeqNumOnly_ClearTo(snf, seqNum)
       /\ Cleared(seqNum)
  /\ UNCHANGED <<fif, vpf>>

FrameIdOnlyClearTo ==
  /\ kind = "FrameIdOnly"
  /\ calls < MaxCalls
  /\ \E pictureID \in ClearToPIDs :
       /\ fif' = FrameIdOnly_ClearTo(fif, pictureID)
       /\ Cleared(pictureID)
  /\ UNCHANGED <<snf, vpf>>

VP8ClearTo ==
  /\ kind = "VP8"
  /\ calls < MaxCalls
  /\ \E pictureID \in ClearToPIDs :
       /\ vpf' = VP8_ClearTo(vpf, pictureID)
       /\ Cleared(pictureID)
  /\ UNCHANGED <<snf, fif>>

SeqNumOnlyManage ==
  /\ kind = "SeqNumOnly"
  /\ calls < MaxCalls
  /\ \E first \in FinderSeqs, last \in FinderSeqs, frameType \in FrameTypes :
       /\ first <= last
       /\ LET frame == AssembledFrame(first, last, frameType)
              header == FrameHeader(frameType, NoPictureID, NoTemporalIdx, NoTL0PicIdx)
          IN  \E r \in SeqNumOnly_ManageFrame(snf, frame, header) :
                /\ snf' = r.f
                /\ Returned(frame, header, r.out)
  /\ UNCHANGED <<fif, vpf>>

FrameIdOnlyManage ==
  /\ kind = "FrameIdOnly"
  /\ calls < MaxCalls
  /\ \E pictureID \in FinderPIDs \cup {NoPictureID}, frameType \in FrameTypes :
       LET frame == AssembledFrame(0, 0, frameType)
           header == FrameHeader(frameType, pictureID, NoTemporalIdx, NoTL0PicIdx)
           r == FrameIdOnly_ManageFrame(fif, frame, header)
       IN  /\ fif' = r.f
           /\ Returned(frame, header, r.out)
  /\ UNCHANGED <<snf, vpf>>

VP8Manage ==
  /\ kind = "VP8"
  /\ calls < MaxCalls
  /\ \E pictureID \in FinderPIDs, tid \in FinderTIDs, tl0 \in FinderTL0s,
        frameType \in FrameTypes :
       LET frame == AssembledFrame(0, 0, frameType)
           header == FrameHeader(frameType, pictureID, tid, tl0)
       IN  \E r \in VP8_ManageFrame(vpf, frame, header) :
             /\ vpf' = r.f
             /\ Returned(frame, header, r.out)
  /\ UNCHANGED <<snf, fif>>

FinderNext ==
  \/ SeqNumOnlyManage \/ FrameIdOnlyManage \/ VP8Manage
  \/ SeqNumOnlyClearTo \/ FrameIdOnlyClearTo \/ VP8ClearTo

SpecFinders == FinderInit /\ [][FinderNext]_vars

\* Every reference a frame lists is smaller than the frame's id.
RefsBelowId(frame) ==
  \A r \in 0..(frame.NumReferences - 1) : frame.References[r] < frame.ID

\* C8: every delta frame returned by SeqNumOnlyRefFinder or FrameIdOnlyRefFinder
\* lists only references smaller than its own id.
C8_RefsBelowId ==
  kind \in {"SeqNumOnly", "FrameIdOnly"} =>
    \A i \in DOMAIN out : out[i].FrameType = FrameTypeDelta => RefsBelowId(out[i])

\* SeqNumOnlyRefFinder returned a delta frame together with a stashed delta
\* frame that it made resolvable, each with one reference.
C8_Witness ==
  /\ kind = "SeqNumOnly"
  /\ Len(out) = 2
  /\ \A i \in DOMAIN out : out[i].FrameType = FrameTypeDelta /\ out[i].NumReferences = 1

\* C9: every delta frame returned by VP8RefFinder lists only references smaller
\* than its own id, and every key frame it returns, whatever its temporal index,
\* has no references.
C9_VP8References ==
  kind = "VP8" =>
    \A i \in DOMAIN out :
      /\ out[i].FrameType = FrameTypeDelta => RefsBelowId(out[i])
      /\ out[i].FrameType = FrameTypeKey => out[i].NumReferences = 0

\* Every reference of frame i of `out` is the id of a frame returned earlier:
\* by an earlier call, or earlier in the same call.
RefsEmittedEarlier(i) ==
  \A r \in 0..(out[i].NumReferences - 1) :
    out[i].References[r] \in emitted \cup {out[j].ID : j \in 1..(i - 1)}

\* C10: every reference of a returned frame is the id of a frame the same
\* finder instance returned earlier.
C10_RefsWereEmitted ==
  \A i \in DOMAIN out : RefsEmittedEarlier(i)

\* C10 as it holds: the references set by SeqNumOnlyRefFinder, and by
\* VP8RefFinder for frames with picture id, temporal index and TL0PICIDX, are
\* ids of frames the same finder instance returned earlier.
C10_RefsWereEmitted_Amended ==
  kind \in {"SeqNumOnly", "VP8"} => \A i \in DOMAIN out : RefsEmittedEarlier(i)

\* A call returned a frame whose reference was returned by an earlier call.
C10_Witness ==
  /\ kind \in {"SeqNumOnly", "VP8"}
  /\ \E i \in DOMAIN out : out[i].NumReferences = 1 /\ out[i].References[0] \in emitted

\* The frame returned is the frame given, with the id and the one reference
\* that SeqNumOnlyRefFinder sets for a delta frame that follows frame prev.
ResolvedAfter(returned, given, prev) ==
  returned = [given EXCEPT !.ID = given.FirstSeqNumUnwrapped,
                           !.NumReferences = 1,
                           !.References[0] = prev.ID]

\* The frame returned most recently, the last call included.
LastReturned == IF Len(out) > 0 THEN out[Len(out)] ELSE lastOut

\* C15: once SeqNumOnlyRefFinder has returned a frame, a delta frame is
\* returned by the ManageFrame call it is given to exactly when its first
\* unwrapped sequence number is the last one of the frame returned most
\* recently plus one; after the first frame a call returns, every further frame
\* starts one after the end of the frame before it; each delta frame returned
\* has id = its first unwrapped sequence number and one reference, the id of
\* the frame returned immediately before it; and no stashed frame that
\* continues the frame returned most recently is left in the stash.
C15_EmittedWhenContiguous ==
  (kind = "SeqNumOnly" /\ calls > 0) =>
    /\ (ManageFrameCalled /\ arg.frame.FrameType = FrameTypeDelta /\ lastOut # Nil) =>
         IF arg.frame.FirstSeqNumUnwrapped = lastOut.LastSeqNumUnwrapped + 1
           THEN Len(out) > 0 /\ ResolvedAfter(out[1], arg.frame, lastOut)
           ELSE out = <<>>
    /\ \A i \in 2..Len(out) :
         /\ out[i].FirstSeqNumUnwrapped = out[i - 1].LastSeqNumUnwrapped + 1
         /\ out[i].FrameType = FrameTypeDelta
         /\ ResolvedAfter(out[i], out[i], out[i - 1])
    /\ LastReturned # Nil =>
         \A j \in DOMAIN snf.stashedFrames :
           snf.stashedFrames[j].frame.FirstSeqNumUnwrapped
             # LastReturned.LastSeqNumUnwrapped + 1

\* A delta frame given after a key frame closed the gap before a stashed delta
\* frame: the call returned the frame given followed by the stashed one.
C15_Witness ==
  /\ kind = "SeqNumOnly"
  /\ lastOut # Nil
  /\ ManageFrameCalled
  /\ arg.frame.FrameType = FrameTypeDelta
  /\ Len(out) = 2
  /\ out[1].FirstSeqNumUnwrapped = arg.frame.FirstSeqNumUnwrapped
  /\ out[2].FirstSeqNumUnwrapped = out[1].LastSeqNumUnwrapped + 1

\* The frames and headers the finder driven holds in its stash.
StashedNow ==
  IF kind = "SeqNumOnly" THEN snf.stashedFrames
  ELSE IF kind = "VP8" THEN vpf.stashedFrames
  ELSE <<>>

\* The stash holds the frame given to the last call (VP8RefFinder has set the
\* frame's id by then).
GivenIsStashed ==
  \E j \in DOMAIN StashedNow :
    /\ StashedNow[j].header = arg.header
    /\ [StashedNow[j].frame EXCEPT !.ID = arg.frame.ID] = arg.frame

\* C16: as long as SeqNumOnlyRefFinder, or VP8RefFinder given frames with
\* picture id, temporal index and TL0PICIDX, has returned no frame, a call
\* that is given a delta frame returns no frame and stashes the frame, and the
\* first frame the finder returns is a key frame.
C16_NoDeltaBeforeKey ==
  (kind \in {"SeqNumOnly", "VP8"} /\ ManageFrameCalled /\ lastOut = Nil) =>
    /\ arg.frame.FrameType = FrameTypeDelta => (out = <<>> /\ GivenIsStashed)
    /\ Len(out) > 0 => out[1].FrameType = FrameTypeKey

\* A call of VP8RefFinder.ManageFrame takes place, after a key frame was
\* processed, for a delta frame.
VP8DeltaCall ==
  /\ kind = "VP8"
  /\ calls' = calls + 1
  /\ "frame" \in DOMAIN arg'
  /\ vpf.gotInitialFrame
  /\ arg'.frame.FrameType = FrameTypeDelta

\* The unwrapped picture id and TL0PICIDX of the frame the call is given.
GivenPID == pictureID_Unwrap(vpf.pictureIDUnwrapper, arg'.header.PictureID).value
GivenTL0 == tl0PicIdx_Unwrap(vpf.tl0Unwrapper, arg'.header.TL0PicIdx).value

\* layer_info[tl0][0] is set in finder f.
BaseLayerSet(f, tl0) == tl0 \in DOMAIN f.layerInfo /\ f.layerInfo[tl0][0] # 0

\* The call returns nothing and leaves the frame given in the stash.
GivenGetsStashed ==
  /\ out' = <<>>
  /\ \E j \in DOMAIN vpf'.stashedFrames :
       /\ vpf'.stashedFrames[j].header = arg'.header
       /\ vpf'.stashedFrames[j].unwrappedPID = GivenPID
       /\ vpf'.stashedFrames[j].unwrappedTL0 = GivenTL0

\* The call returns the frame given first, with id pid and the one reference ref.
GivenReturnedWith(pid, refs) ==
  /\ Len(out') > 0
  /\ out'[1].ID = pid
  /\ out'[1].NumReferences = 1
  /\ <<out'[1].References[0]>> \in refs

\* How many entries of stash equal e.
CountIn(stash, e) == Cardinality({j \in DOMAIN stash : stash[j] = e})

\* The call returns stashed entry e after the frame given: the call returns
\* more than one frame and the stash holds fewer copies of e afterwards.
StashedReturned(e) ==
  /\ Len(out') > 1
  /\ CountIn(vpf'.stashedFrames, e) < CountIn(vpf.stashedFrames, e)

\* C17: once a key frame was processed, VP8RefFinder given a delta frame with
\* tid 0 and unwrapped TL0PICIDX t returns it with id = its unwrapped picture
\* id and the one reference recorded in layer_info[t-1][0] if that entry is
\* set, and stashes it otherwise; a stashed frame with tid 0 is not returned
\* unless layer_info[t-1][0] is set.
C17_BaseLayerDelta ==
  [][VP8DeltaCall =>
       /\ ClampTid(arg'.header) = 0 =>
            IF BaseLayerSet(vpf, GivenTL0 - 1)
              THEN GivenReturnedWith(GivenPID, {<<vpf.layerInfo[GivenTL0 - 1][0] - 1>>})
              ELSE GivenGetsStashed
       /\ \A j \in DOMAIN vpf.stashedFrames :
            (ClampTid(vpf.stashedFrames[j].header) = 0 /\ StashedReturned(vpf.stashedFrames[j]))
              => BaseLayerSet(vpf', vpf.stashedFrames[j].unwrappedTL0 - 1)
    ]_vars

\* The references the rule of C18 allows for temporal layer tid and TL0PICIDX
\* tl0: from layer_info[tl0] below tid, else from layer_info[tl0 - 1] from tid
\* down, else the base layer of any element.
EnhancementRefs(f, tl0, tid) ==
  LET fromCurrent == IF tl0 \in DOMAIN f.layerInfo
                       THEN ScanLayers(f.layerInfo[tl0], tid - 1) ELSE <<>>
      fromPrev == IF (tl0 - 1) \in DOMAIN f.layerInfo
                    THEN ScanLayers(f.layerInfo[tl0 - 1], tid) ELSE <<>>
  IN  IF Len(fromCurrent) # 0 THEN {fromCurrent}
      ELSE IF Len(fromPrev) # 0 THEN {fromPrev}
      ELSE {<<f.layerInfo[k][0] - 1>> : k \in {j \in DOMAIN f.layerInfo : BaseLayerSet(f, j)}}

\* C18: once a key frame was processed, VP8RefFinder given a delta frame with
\* tid > 0 and unwrapped TL0PICIDX t returns it with exactly one reference:
\* the first non-zero entry of layer_info[t] from layer tid-1 down to 0, else
\* the first non-zero entry of layer_info[t-1] from layer tid down to 0, else
\* the base-layer entry of some element of layer_info; with no candidate the
\* frame is stashed.
C18_EnhancementLayerDelta ==
  [][(VP8DeltaCall /\ ClampTid(arg'.header) > 0) =>
       IF EnhancementRefs(vpf, GivenTL0, ClampTid(arg'.header)) # {}
         THEN GivenReturnedWith(GivenPID, EnhancementRefs(vpf, GivenTL0, ClampTid(arg'.header)))
         ELSE GivenGetsStashed
    ]_vars

\* C19: FrameIdOnlyRefFinder.ManageFrame given a frame with a picture id
\* returns exactly that frame, with id = the unwrapped picture id, no
\* reference for a key frame and the one reference id - 1 for a delta frame;
\* given a frame without picture id it returns the frame unchanged.
C19_FrameIdOnlyReturnsFrame ==
  (kind = "FrameIdOnly" /\ ManageFrameCalled) =>
    IF arg.header.PictureID = NoPictureID THEN out = <<arg.frame>>
    ELSE /\ Len(out) = 1
         /\ out[1].ID = fif.unwrapper.lastUnwrapped
         /\ out[1].ID % pictureIDModulus = arg.header.PictureID
         /\ out[1] = IF arg.frame.FrameType = FrameTypeKey
                       THEN [arg.frame EXCEPT !.ID = out[1].ID, !.NumReferences = 0]
                       ELSE [arg.frame EXCEPT !.ID = out[1].ID, !.NumReferences = 1,
                                              !.References[0] = out[1].ID - 1]

(***************************************************************************)
(* Packet buffer fed one well-formed stream, with reordering and           *)
(* duplication by the network                                              *)
(***************************************************************************)

\* Packets the network may hold back at one time.
MaxHeld == 1
\* Packets the network may deliver a second time.
MaxDups == 1

\* The stream's frames, by number of packets: a single-packet frame, a
\* two-packet frame, and a frame two packets longer than half the buffer.
StreamFrameLens == <<1, 2, size \div 2 + 2>>

RECURSIVE FrameStart(_)
\* The sequence number of the first packet of the k-th frame.
FrameStart(k) == IF k = 1 THEN 0 ELSE FrameStart(k - 1) + StreamFrameLens[k - 1]

FrameEnd(k) == FrameStart(k) + StreamFrameLens[k] - 1
StreamLen == FrameEnd(Len(StreamFrameLens)) + 1
FrameOf(seq) == CHOOSE k \in DOMAIN StreamFrameLens : FrameStart(k) <= seq /\ seq <= FrameEnd(k)
FrameSeqs(k) == FrameStart(k)..FrameEnd(k)

\* The packet with sequence number seq as the receiver hands it to the buffer:
\* the frame's number is its RTP timestamp, the first frame is the key frame.
StreamPacket(seq) ==
  LET k == FrameOf(seq)
  IN  BufferedPacket(seq, k, <<>>,
        RTPVideoHeader(IF k = 1 THEN FrameTypeKey ELSE FrameTypeDelta,
                       seq = FrameStart(k), seq = FrameEnd(k),
                       NoPictureID, NoTemporalIdx, NoTL0PicIdx),
        seq = FrameEnd(k))

\* Sequence numbers delivered at least once.
Delivered == (0..(next - 1)) \ held

StreamInit ==
  /\ buffer = NewVideoPacketBuffer
  /\ result = <<>>
  /\ NoFinders
  /\ NoCall
  /\ NoStream
  /\ NoReceiver

FirstSeqs(frames) == {frames[i][1].SequenceNumber : i \in DOMAIN frames}

\* InsertPacket on the packet with sequence number seq, and the history of it.
StreamInsert(seq, dup) ==
  LET r == InsertPacket(buffer, StreamPacket(seq))
  IN  /\ buffer' = r.buffer
      /\ result' = r.Frames
      /\ lastSeq' = seq
      /\ wasDup' = dup
      /\ returnedBefore' = returnedBefore \cup FirstSeqs(result)
      /\ UNCHANGED <<finderVars, callVars, recvVars>>

\* The next packet of the stream arrives.
DeliverNext ==
  /\ next < StreamLen
  /\ StreamInsert(next, FALSE)
  /\ next' = next + 1
  /\ UNCHANGED <<held, dups>>

\* The network holds the next packet back.
HoldBack ==
  /\ next < StreamLen
  /\ Cardinality(held) < MaxHeld
  /\ held' = held \cup {next}
  /\ next' = next + 1
  /\ UNCHANGED <<buffer, result, finderVars, callVars, recvVars, dups, lastSeq, wasDup, returnedBefore>>

\* A packet held back arrives.
DeliverHeld ==
  \E seq \in held :
    /\ StreamInsert(seq, FALSE)
    /\ held' = held \ {seq}
    /\ UNCHANGED <<next, dups>>

\* A packet delivered before arrives once more.
Redeliver ==
  /\ dups < MaxDups
  /\ \E seq \in Delivered :
       /\ StreamInsert(seq, TRUE)
       /\ dups' = dups + 1
       /\ UNCHANGED <<next, held>>

StreamNext == DeliverNext \/ HoldBack \/ DeliverHeld \/ Redeliver

SpecStream == StreamInit /\ [][StreamNext]_vars

\* The last InsertPacket call returned the k-th frame of the stream, whole and in order.
FrameReturned(k) ==
  \E i \in DOMAIN result :
    /\ Len(result[i]) = StreamFrameLens[k]
    /\ \A j \in DOMAIN result[i] : result[i][j] = [StreamPacket(FrameStart(k) + j - 1)
                                                     EXCEPT !.Continuous = TRUE]

\* C2: whatever the order in which the packets of a frame arrive, the
\* InsertPacket call that delivers the frame's last missing packet returns the
\* frame, its packets in ascending order (no packet of this stream is ever
\* overwritten: the stream is shorter than the buffer).
C2_CompletionReturnsFrame ==
  (lastSeq # -1 /\ ~wasDup /\ FrameSeqs(FrameOf(lastSeq)) \subseteq Delivered)
    => FrameReturned(FrameOf(lastSeq))

\* C4: delivering again a packet that was delivered before returns no frame,
\* and no frame is returned twice.
C4_DuplicatesIdempotent ==
  /\ wasDup => result = <<>>
  /\ FirstSeqs(result) \cap returnedBefore = {}

(***************************************************************************)
(* The receiver reading one VP8 stream whose packets arrive in any order   *)
(***************************************************************************)

\* A frame of a stream: number of packets, frame type, and the VP8 descriptor
\* extension fields its packets carry (-1: the field is absent).
StreamFrame(len, frameType, pictureID, tid, tl0PicIdx) ==
  [len |-> len, FrameType |-> frameType, PictureID |-> pictureID,
   TID |-> tid, TL0PICIDX |-> tl0PicIdx]

\* Packets of the one frame of the long stream: two more than half the buffer.
LongFrameLen == (size \div 2) + 2

\* The streams: the sequence number of the first packet and the frames.
\*   plain  - no extension fields, one key frame followed by three delta frames
\*   gops   - no extension fields, a second key frame after a delta frame
\*   wrap   - as plain, the 16-bit sequence number wraps after the key frame
\*   pid    - picture ids only
\*   pidwrap - picture ids only, the 15-bit picture id wraps after the key frame
\*   long   - one key frame of more packets than half the packet buffer holds
\*   layers - picture id, temporal index and TL0PICIDX, two temporal layers
\*   mixed  - the sender adds the picture id with the second frame and the
\*            temporal fields with the third
Streams ==
  [plain |-> [base |-> 0,
              frames |-> <<StreamFrame(2, FrameTypeKey, -1, -1, -1),
                           StreamFrame(1, FrameTypeDelta, -1, -1, -1),
                           StreamFrame(1, FrameTypeDelta, -1, -1, -1),
                           StreamFrame(2, FrameTypeDelta, -1, -1, -1)>>],
   gops |-> [base |-> 0,
             frames |-> <<StreamFrame(1, FrameTypeKey, -1, -1, -1),
                          StreamFrame(1, FrameTypeDelta, -1, -1, -1),
                          StreamFrame(1, FrameTypeKey, -1, -1, -1)>>],
   wrap |-> [base |-> 65535,
             frames |-> <<StreamFrame(1, FrameTypeKey, -1, -1, -1),
                          StreamFrame(2, FrameTypeDelta, -1, -1, -1)>>],
   pid |-> [base |-> 0,
            frames |-> <<StreamFrame(1, FrameTypeKey, 0, -1, -1),
                         StreamFrame(2, FrameTypeDelta, 1, -1, -1),
                         StreamFrame(1, FrameTypeDelta, 2, -1, -1),
                         StreamFrame(1, FrameTypeKey, 3, -1, -1)>>],
   long |-> [base |-> 0,
             frames |-> <<StreamFrame(LongFrameLen, FrameTypeKey, 7, -1, -1)>>],
   pidwrap |-> [base |-> 0,
                frames |-> <<StreamFrame(1, FrameTypeKey, 32767, -1, -1),
                             StreamFrame(2, FrameTypeDelta, 0, -1, -1)>>],
   layers |-> [base |-> 0,
               frames |-> <<StreamFrame(1, FrameTypeKey, 0, 0, 0),
                            StreamFrame(1, FrameTypeDelta, 1, 1, 0),
                            StreamFrame(2, FrameTypeKey, 2, 0, 1),
                            StreamFrame(1, FrameTypeDelta, 3, 0, 2)>>],
   mixed |-> [base |-> 0,
              frames |-> <<StreamFrame(1, FrameTypeKey, -1, -1, -1),
                           StreamFrame(1, FrameTypeDelta, 0, -1, -1),
                           StreamFrame(1, FrameTypeKey, 1, 0, 0)>>]]

StreamNames == DOMAIN Streams

\* The SSRC of the stream (StreamInfo.SSRC).
SSRC == 1

RECURSIVE PacketsBefore(_, _)
\* Number of packets of the frames before the k-th.
PacketsBefore(frames, k) ==
  IF k = 1 THEN 0 ELSE PacketsBefore(frames, k - 1) + frames[k - 1].len

NumPackets(name) ==
  PacketsBefore(Streams[name].frames, Len(Streams[name].frames) + 1)

\* The number of the frame that holds the i-th packet (i from 0).
FrameOfPacket(name, i) ==
  LET frames == Streams[name].frames
  IN  CHOOSE k \in DOMAIN frames :
        PacketsBefore(frames, k) <= i /\ i < PacketsBefore(frames, k) + frames[k].len

\* The i-th packet of the stream (i from 0) as it is parsed from the wire:
\* rtp.Packet's SequenceNumber, Timestamp and Marker, and codecs.VP8Packet.
\* The first payload byte of a frame has the P bit clear for a key frame.
WirePacket(name, i) ==
  LET frames == Streams[name].frames
      k == FrameOfPacket(name, i)
      f == frames[k]
      isFirst == i = PacketsBefore(frames, k)
      isLast == i = PacketsBefore(frames, k) + f.len - 1
  IN  [SequenceNumber |-> (Streams[name].base + i) % 65536,
       Timestamp |-> 3000 * k,
       Marker |-> isLast,
       S |-> IF isFirst THEN 1 ELSE 0,
       PID |-> 0,
       I |-> IF f.PictureID # -1 THEN 1 ELSE 0,
       PictureID |-> IF f.PictureID # -1 THEN f.PictureID ELSE 0,
       T |-> IF f.TID # -1 THEN 1 ELSE 0,
       TID |-> IF f.TID # -1 THEN f.TID ELSE 0,
       L |-> IF f.TL0PICIDX # -1 THEN 1 ELSE 0,
       TL0PICIDX |-> IF f.TL0PICIDX # -1 THEN f.TL0PICIDX ELSE 0,
       Payload |-> IF isFirst
                     THEN <<IF f.FrameType = FrameTypeKey THEN 16 ELSE 17, i>>
                     ELSE <<128 + i>>]

\* The reader between two reads. During a read: the packet in hand, whether
\* the stream had its entry in r.streams when the read began, the
\* BufferedPacket made, the frame of result.Frames the loop stands at, the
\* frame assembled and resolvedFrames.
IdleReader ==
  [pc |-> "idle", packet |-> -1, bound |-> TRUE, pkt |-> Nil, k |-> 0,
   frame |-> Nil, resolved |-> <<>>]

RecvInit ==
  /\ stream \in StreamNames
  /\ streams = {SSRC}
  /\ interceptor = [packetBufferSize |-> size]
  /\ mutex = Nil
  /\ procs = IdleReader
  /\ states = <<>>
  /\ buffer = NewVideoPacketBuffer
  /\ result = <<>>
  /\ NoFinders
  /\ NoCall
  /\ NoStream
  /\ seqUnwrapper = NewSequenceUnwrapper
  /\ frameIDCounter = 0
  /\ published = <<>>
  /\ history = <<>>

\* The stream state the variables hold.
StreamStateNow ==
  [packetBuffer |-> buffer,
   frameIDCounter |-> frameIDCounter,
   seqUnwrapper |-> seqUnwrapper,
   seqNumOnlyRefFinder |-> snf,
   frameIdOnlyRefFinder |-> fif,
   vp8RefFinder |-> vpf]

\* Packets read so far.
Arrived == {history[n].packet : n \in DOMAIN history}

\* What the history keeps of a frame InsertPacket returned: the 16-bit sequence
\* number of its first packet and the header of that packet.
Completed(framePackets) ==
  [first |-> framePackets[1].SequenceNumber % 65536, header |-> framePackets[1].VideoHeader]

\* The read returns: resolvedFrames is what it set under EncodedFramesKey
\* (nothing when the list is empty); the history keeps the read.
ReadReturns(frames, resolvedFrames) ==
  /\ published' = resolvedFrames
  /\ history' = Append(history,
       [packet |-> procs.packet,
        bound |-> procs.bound,
        completed |-> [n \in DOMAIN frames |-> Completed(frames[n])],
        published |-> resolvedFrames])
  /\ procs' = IdleReader

\* The orders in which the packets arrive: any order, except that the packets
\* of the long stream arrive in ascending order but for its second packet,
\* which may arrive at any later time.
MayArrive(i) ==
  \/ stream # "long"
  \/ i = 1
  \/ \A j \in 0..(i - 1) : j \in Arrived \/ j = 1

\* A Read begins: reader.Read returns a packet of the stream that has not
\* arrived yet, it is parsed, its sequence number is unwrapped and the
\* BufferedPacket is made. The mutex is not held.
ReadPacket ==
  /\ procs.pc = "idle"
  /\ \E i \in 0..(NumPackets(stream) - 1) :
       /\ i \notin Arrived
       /\ MayArrive(i)
       /\ LET pkt == WirePacket(stream, i)
              videoHeader == NewRTPVideoHeaderFromVP8(pkt, pkt.Marker)
              w == unwrap(seqUnwrapper, pkt.SequenceNumber)
          IN  /\ seqUnwrapper' = w.u
              /\ procs' = [IdleReader EXCEPT
                             !.pc = "insert", !.packet = i, !.bound = SSRC \in streams,
                             !.pkt = BufferedPacket(w.value, pkt.Timestamp, pkt.Payload,
                                                    videoHeader, pkt.Marker)]
  /\ UNCHANGED <<bufVars, finderVars, callVars, streamVars,
                  stream, streams, interceptor, mutex, states,
                  frameIDCounter, published, history>>

\* Lock, state.packetBuffer.InsertPacket(bufferedPkt), Unlock; without a
\* completed frame the read returns.
ReadInsert ==
  /\ procs.pc = "insert"
  /\ LET ins == InsertPacket(buffer, procs.pkt)
     IN  /\ buffer' = ins.buffer
         /\ result' = ins.Frames
         /\ IF Len(ins.Frames) = 0
              THEN ReadReturns(ins.Frames, <<>>)
              ELSE /\ procs' = [procs EXCEPT !.pc = "assemble", !.k = 1]
                   /\ UNCHANGED <<published, history>>
  /\ UNCHANGED <<finderVars, callVars, streamVars,
                  stream, streams, interceptor, mutex, states,
                  seqUnwrapper, frameIDCounter>>

\* state.frameAssembler.AssembleFrame(framePackets) for the k-th completed
\* frame. The mutex is not held.
ReadAssemble ==
  /\ procs.pc = "assemble"
  /\ LET framePackets == result[procs.k]
     IN  procs' = [procs EXCEPT
                     !.pc = "manage",
                     !.frame = AssembleFrame(framePackets, frameIDCounter)]
  /\ frameIDCounter' = frameIDCounter + 1
  /\ UNCHANGED <<bufVars, finderVars, callVars, streamVars,
                  stream, streams, interceptor, mutex, states,
                  seqUnwrapper, published, history>>

\* Lock, selectRefFinderForFrame, ManageFrame, append to resolvedFrames, Unlock
\* for the k-th completed frame; after the last one the attributes are set and
\* the read returns.
ReadManage ==
  /\ procs.pc = "manage"
  /\ \E o \in ManageFrame(StreamStateNow, procs.frame, result[procs.k][1].VideoHeader) :
       LET resolvedFrames == procs.resolved \o o.resolved
       IN  /\ snf' = o.state.seqNumOnlyRefFinder
           /\ fif' = o.state.frameIdOnlyRefFinder
           /\ vpf' = o.state.vp8RefFinder
           /\ IF procs.k = Len(result)
                THEN ReadReturns(result, resolvedFrames)
                ELSE /\ procs' = [procs EXCEPT !.pc = "assemble", !.k = @ + 1,
                                               !.frame = Nil, !.resolved = resolvedFrames]
                     /\ UNCHANGED <<published, history>>
  /\ UNCHANGED <<bufVars, kind, out, emitted, calls, lastOut, order, arg, callVars,
                  streamVars, stream, streams, interceptor, mutex, states,
                  seqUnwrapper, frameIDCounter>>

\* UnbindRemoteStream for the stream: delete(r.streams, info.SSRC). The reader
\* returned by BindRemoteStream keeps the stream state it captured.
UnbindRemoteStream ==
  /\ streams' = streams \ {SSRC}
  /\ UNCHANGED <<bufVars, finderVars, callVars, streamVars,
                  stream, interceptor, mutex, procs, states,
                  seqUnwrapper, frameIDCounter, published, history>>

\* Close: r.streams is replaced by an empty map.
Close ==
  /\ streams' = {}
  /\ UNCHANGED <<bufVars, finderVars, callVars, streamVars,
                  stream, interceptor, mutex, procs, states,
                  seqUnwrapper, frameIDCounter, published, history>>

RecvNext ==
  \/ ReadPacket \/ ReadInsert \/ ReadAssemble \/ ReadManage
  \/ UnbindRemoteStream \/ Close

SpecRecv == RecvInit /\ [][RecvNext]_vars

RECURSIVE PublishedUpTo(_)
\* All frames published by the first n reads, in order of publication.
PublishedUpTo(n) ==
  IF n = 0 THEN <<>> ELSE PublishedUpTo(n - 1) \o history[n].published

AllPublished == PublishedUpTo(Len(history))

RECURSIVE InOrderRuns(_, _)
\* The possible runs of a fresh receiver that reads the first n packets of the
\* stream in order: the stream state reached and the frames published.
InOrderRuns(name, n) ==
  IF n = 0 THEN {[state |-> NewStreamState, published |-> <<>>]}
  ELSE UNION {
         {[state |-> o.state, published |-> before.published \o o.published] :
            o \in Read(before.state, WirePacket(name, n - 1))} :
         before \in InOrderRuns(name, n - 1)}

\* What two frames are compared by.
IdAndData(frame) == <<frame.ID, frame.Data>>

Occurrences(frames, x) == Cardinality({n \in DOMAIN frames : IdAndData(frames[n]) = x})

\* The two lists hold the same multiset of frames, compared by id and data.
SameFrames(a, b) ==
  /\ Len(a) = Len(b)
  /\ \A n \in DOMAIN a : Occurrences(a, IdAndData(a[n])) = Occurrences(b, IdAndData(a[n]))

AllArrived == Cardinality(Arrived) = NumPackets(stream)

\* Once every packet has arrived, the frames published are, as a multiset by id
\* and data, those of in-order arrival.
AsInOrder ==
  AllArrived =>
    \E r \in InOrderRuns(stream, NumPackets(stream)) : SameFrames(AllPublished, r.published)

\* C5: for a fixed set of packets of one stream, every arrival permutation
\* makes the receiver pipeline emit the same multiset of frames, by id and
\* data, as in-order arrival (no stream here is longer than the buffer).
C5_PermutationInvariance == AsInOrder

\* Any two picture ids of the stream are less than a quarter of the 15-bit
\* range apart.
PictureIDsClose(name) ==
  \A k, l \in DOMAIN Streams[name].frames :
    Streams[name].frames[k].PictureID - Streams[name].frames[l].PictureID
      < pictureIDModulus \div 4

\* Read m published the frame whose first packet has the 16-bit sequence
\* number first (no stream here has two frames with the same one).
PublishedIn(first, m) ==
  \E j \in DOMAIN history[m].published :
    history[m].published[j].FirstSeqNum = first

\* C6: if the buffer returned frame Y in an earlier InsertPacket call than
\* frame X, then Y is published by the same read as X or by an earlier one,
\* whichever reference finder handles the frames.
C6_CompletionOrder ==
  \A n1, n2 \in DOMAIN history :
    n1 < n2 =>
      \A y \in DOMAIN history[n1].completed, x \in DOMAIN history[n2].completed :
        \A my, mx \in DOMAIN history :
          (/\ PublishedIn(history[n1].completed[y].first, my)
           /\ PublishedIn(history[n2].completed[x].first, mx)) => my <= mx

\* The frame's first packet carries a picture id but not both the temporal
\* index and TL0PICIDX: the receiver hands the frame to FrameIdOnlyRefFinder.
ForFrameIdOnly(header) ==
  /\ header.PictureID # NoPictureID
  /\ (header.TemporalIdx = NoTemporalIdx \/ header.TL0PicIdx = NoTL0PicIdx)

\* C6 as it holds: a frame that the receiver hands to FrameIdOnlyRefFinder is
\* published by the very read whose InsertPacket call returned it or never, and
\* it is published when the picture ids of the stream lie close together; such
\* frames are therefore published in completion order.
C6_CompletionOrder_Amended ==
  \A n \in DOMAIN history :
    \A c \in DOMAIN history[n].completed :
      ForFrameIdOnly(history[n].completed[c].header) =>
        /\ \A m \in DOMAIN history : PublishedIn(history[n].completed[c].first, m) => m = n
        /\ PictureIDsClose(stream) => PublishedIn(history[n].completed[c].first, n)

\* The first read of the pid stream completed a delta frame and published it,
\* before the key frame arrived.
C6_Witness ==
  /\ stream = "pid"
  /\ Len(history) >= 1
  /\ Len(history[1].completed) = 1
  /\ history[1].completed[1].header.FrameType = FrameTypeDelta
  /\ PublishedIn(history[1].completed[1].first, 1)

\* The sequence number of the frame's first packet, counted from the first
\* packet of the stream: the order of the unwrapped sequence numbers.
FirstFromBase(frame) == (frame.FirstSeqNum - Streams[stream].base + 65536) % 65536

\* C7: the frames published by one read are in ascending order of the
\* unwrapped sequence number of their first packet, and so are the frames of
\* one InsertResult.
C7_AscendingWithinRead ==
  /\ \A j \in 1..(Len(published) - 1) :
       FirstFromBase(published[j]) < FirstFromBase(published[j + 1])
  /\ \A j \in 1..(Len(result) - 1) :
       result[j][1].SequenceNumber < result[j + 1][1].SequenceNumber

\* C33: VP8RefFinder unwraps the picture id and the TL0PICIDX of a frame once,
\* in the ManageFrame call the frame is given to: after the call both
\* unwrappers are as one Unwrap of the given frame's values leaves them,
\* however many stashed frames the call resolved; a frame that enters the
\* stash carries the values unwrapped in that call, entries already stashed
\* keep theirs, and a stashed frame that is returned has the unwrapped picture
\* id of its entry as id.
C33_UnwrappedOnce ==
  [][(kind = "VP8" /\ "frame" \in DOMAIN arg') =>
       LET header == arg'.header
           wp == pictureID_Unwrap(vpf.pictureIDUnwrapper, header.PictureID)
           wt == tl0PicIdx_Unwrap(vpf.tl0Unwrapper, header.TL0PicIdx)
       IN  /\ vpf'.pictureIDUnwrapper = wp.u
           /\ vpf'.tl0Unwrapper = wt.u
           /\ \A j \in DOMAIN vpf'.stashedFrames :
                LET e == vpf'.stashedFrames[j]
                IN  IF CountIn(vpf'.stashedFrames, e) > CountIn(vpf.stashedFrames, e)
                      THEN /\ e.unwrappedPID = wp.value
                           /\ e.unwrappedTL0 = wt.value
                           /\ e.header = header
                      ELSE CountIn(vpf.stashedFrames, e) > 0
           /\ \A j \in DOMAIN vpf.stashedFrames :
                LET e == vpf.stashedFrames[j]
                IN  StashedReturned(e) =>
                      \E i \in 2..Len(out') :
                        /\ out'[i].ID = e.unwrappedPID
                        /\ out'[i].FrameType = e.frame.FrameType
    ]_vars

\* A delta frame stashed before any key frame has been returned behind a key
\* frame with another picture id, and the picture id unwrapper stands at the
\* key frame's.
C33_Witness ==
  /\ kind = "VP8"
  /\ calls >= 2
  /\ ManageFrameCalled
  /\ arg.frame.FrameType = FrameTypeKey
  /\ Len(out) = 2
  /\ out[2].FrameType = FrameTypeDelta
  /\ out[2].ID # out[1].ID
  /\ vpf.pictureIDUnwrapper.lastUnwrapped = out[1].ID
  /\ vpf.stashedFrames = <<>>

\* The first unwrapped sequence numbers of the frames in a list.
FirstUnwrapped(frames) == {frames[i].FirstSeqNumUnwrapped : i \in DOMAIN frames}

\* C32: SeqNumOnlyRefFinder emits no frame of an old GOP. A key frame becomes
\* the start of the GOP and every stashed frame that starts before it leaves
\* the stash without being returned; a delta frame that starts before the GOP
\* is discarded and changes nothing in the finder; and no delta frame returned
\* starts before the key frame processed last.
C32_NoOldGOP ==
  [][(kind = "SeqNumOnly" /\ "frame" \in DOMAIN arg') =>
       LET frame == arg'.frame
           first == frame.FirstSeqNumUnwrapped
       IN  /\ frame.FrameType = FrameTypeKey =>
                /\ snf'.lastSeqNumGOP = first
                /\ \A j \in DOMAIN snf.stashedFrames :
                     LET stashed == snf.stashedFrames[j].frame.FirstSeqNumUnwrapped
                     IN  stashed < first =>
                           /\ stashed \notin FirstUnwrapped([i \in DOMAIN snf'.stashedFrames |->
                                                               snf'.stashedFrames[i].frame])
                           /\ stashed \notin FirstUnwrapped(out')
           /\ (frame.FrameType = FrameTypeDelta /\ snf.gotInitialFrame /\ first < snf.lastSeqNumGOP) =>
                /\ snf' = snf
                /\ out' = <<>>
           /\ \A i \in DOMAIN out' :
                out'[i].FrameType = FrameTypeDelta => out'[i].FirstSeqNumUnwrapped >= snf'.lastSeqNumGOP
    ]_vars

\* A delta frame was stashed before the key frame that started the GOP, the
\* key frame emptied the stash, and a delta frame of the old GOP that arrived
\* afterwards was discarded.
C32_Witness ==
  /\ kind = "SeqNumOnly"
  /\ calls = 3
  /\ snf.gotInitialFrame
  /\ ManageFrameCalled
  /\ arg.frame.FrameType = FrameTypeDelta
  /\ arg.frame.FirstSeqNumUnwrapped < snf.lastSeqNumGOP
  /\ out = <<>>
  /\ snf.stashedFrames = <<>>
  /\ emitted = {snf.lastSeqNumGOP}

(***************************************************************************)
(* VP8RefFinder given key frames far ahead of what it holds                *)
(***************************************************************************)

\* Picture ids and TL0PICIDX values of the frames: a key frame with picture id
\* 101 is 101, 100 and 99 ahead of the others, one with TL0PICIDX 11 is 11 and
\* 10 ahead.
PurgePIDs == {0, 1, 2, 101}
PurgeTL0s == {0, 1, 11}

PurgeInit ==
  /\ buffer = NewVideoPacketBuffer
  /\ result = <<>>
  /\ kind = "VP8Purge"
  /\ snf = Nil
  /\ fif = Nil
  /\ vpf = NewVP8RefFinder
  /\ out = <<>>
  /\ emitted = {}
  /\ calls = 0
  /\ lastOut = Nil
  /\ order = "any"
  /\ arg = Nil
  /\ NoCall
  /\ NoStream
  /\ NoReceiver

\* ManageFrame with a base-layer frame.
PurgeManage ==
  /\ kind = "VP8Purge"
  /\ calls < MaxCalls
  /\ \E pictureID \in PurgePIDs, tl0 \in PurgeTL0s, frameType \in FrameTypes :
       LET frame == AssembledFrame(0, 0, frameType)
           header == FrameHeader(frameType, pictureID, 0, tl0)
       IN  \E r \in VP8_ManageFrame(vpf, frame, header) :
             /\ vpf' = r.f
             /\ Returned(frame, header, r.out)
  /\ UNCHANGED <<snf, fif>>

PurgeNext == PurgeManage

SpecPurge == PurgeInit /\ [][PurgeNext]_vars

\* The stash entry has left the stash and its frame is among the frames
\* returned after the first.
ReturnedFromStash(e) ==
  /\ CountIn(vpf'.stashedFrames, e) < CountIn(vpf.stashedFrames, e)
  /\ \E i \in 2..Len(out') : out'[i].ID = e.unwrappedPID

\* C34: a key frame with tid 0, unwrapped picture id p and unwrapped TL0PICIDX
\* t is returned first and without references; layerInfo[t] becomes
\* [p+1,0,0,0] (until a resolved frame with the same TL0PICIDX updates it); of
\* the layerInfo entries held before exactly those more than 10 behind t are
\* removed; and of the stashed frames exactly those more than 100 behind p
\* are removed, one exactly 100 behind staying in the stash or being returned
\* behind the key frame.
C34_KeyFramePurge ==
  [][(kind = "VP8Purge" /\ arg'.frame.FrameType = FrameTypeKey) =>
       LET p == pictureID_Unwrap(vpf.pictureIDUnwrapper, arg'.header.PictureID).value
           t == tl0PicIdx_Unwrap(vpf.tl0Unwrapper, arg'.header.TL0PicIdx).value
       IN  (p >= 0 /\ t >= 0) =>
             /\ Len(out') >= 1
             /\ out'[1].ID = p
             /\ out'[1].NumReferences = 0
             /\ t \in DOMAIN vpf'.layerInfo
             /\ (\A j \in DOMAIN vpf.stashedFrames :
                   ReturnedFromStash(vpf.stashedFrames[j]) => vpf.stashedFrames[j].unwrappedTL0 # t)
                  => vpf'.layerInfo[t] = [NoLayers EXCEPT ![0] = p + 1]
             /\ \A k \in DOMAIN vpf.layerInfo :
                  t - k > maxTL0History => k \notin DOMAIN vpf'.layerInfo
             /\ \A k \in DOMAIN vpf.layerInfo :
                  t - k <= maxTL0History => k \in DOMAIN vpf'.layerInfo
             /\ \A j \in DOMAIN vpf.stashedFrames :
                  LET e == vpf.stashedFrames[j]
                  IN  IF p - e.unwrappedPID > 100
                        THEN CountIn(vpf'.stashedFrames, e) = 0 /\ ~ReturnedFromStash(e)
                        ELSE CountIn(vpf'.stashedFrames, e) > 0 \/ ReturnedFromStash(e)
    ]_vars

(***************************************************************************)
(* One unwrapper driven directly                                           *)
(***************************************************************************)

\* Unwrap calls per behaviour.
MaxUnwraps == 4

Unwrappers == {"sequenceUnwrapper", "pictureIDUnwrapper", "tl0PicIdxUnwrapper"}

\* The modulus of the unwrapper: 16-bit sequence number, 15-bit picture id,
\* 8-bit TL0PICIDX.
Modulus(k) ==
  IF k = "sequenceUnwrapper" THEN 65536
  ELSE IF k = "pictureIDUnwrapper" THEN pictureIDModulus
  ELSE tl0PicIdxModulus

\* The zero value of the unwrapper.
NewUnwrapperOf(k) ==
  IF k = "sequenceUnwrapper" THEN NewSequenceUnwrapper ELSE NewUnwrapper

\* The unwrapper's method on the wire value.
Unwrap(k, u, value) ==
  IF k = "sequenceUnwrapper" THEN unwrap(u, value)
  ELSE IF k = "pictureIDUnwrapper" THEN pictureID_Unwrap(u, value)
  ELSE tl0PicIdx_Unwrap(u, value)

\* True values the first call may carry: inside [0, M) and outside.
FirstTruths(M) == {0, 1, M - 1, M, -1, 2 * M + 3}

\* Differences of consecutive true values: magnitude below M/2, both directions.
Steps(M) == {-((M \div 2) - 1), -1, 0, 1, (M \div 2) - 1}

UnwrapInit ==
  /\ buffer = NewVideoPacketBuffer
  /\ result = <<>>
  /\ kind \in Unwrappers
  /\ snf = Nil
  /\ fif = Nil
  /\ vpf = Nil
  /\ out = <<>>
  /\ emitted = {}
  /\ calls = 0
  /\ lastOut = Nil
  /\ order = "none"
  /\ arg = Nil
  /\ ret = Nil
  /\ unwrapper = NewUnwrapperOf(kind)
  /\ NoStream
  /\ NoReceiver

\* The unwrapper is given the true value truth as it travels on the wire:
\* modulo M. The history keeps the first and the last true value.
UnwrapValue(truth) ==
  LET r == Unwrap(kind, unwrapper, truth % Modulus(kind))
  IN  /\ unwrapper' = r.u
      /\ ret' = r.value
      /\ arg' = [first |-> IF calls = 0 THEN truth ELSE arg.first, truth |-> truth]
      /\ calls' = calls + 1
      /\ UNCHANGED <<bufVars, kind, snf, fif, vpf, out, emitted, lastOut, order,
                      streamVars, recvVars>>

UnwrapFirst ==
  /\ calls = 0
  /\ \E truth \in FirstTruths(Modulus(kind)) : UnwrapValue(truth)

UnwrapFollowing ==
  /\ calls > 0
  /\ calls < MaxUnwraps
  /\ \E d \in Steps(Modulus(kind)) : UnwrapValue(arg.truth + d)

UnwrapNext == UnwrapFirst \/ UnwrapFollowing

SpecUnwrap == UnwrapInit /\ [][UnwrapNext]_vars

\* C13: for each of the three unwrappers, fed the true values modulo M with
\* consecutive differences of magnitude below M/2 in either direction, every
\* output differs from the true value by the one constant fixed by the first
\* call, and that constant is 0 when the first true value lies in [0, M).
C13_UnwrapOffset ==
  calls > 0 =>
    /\ ret - arg.truth = (arg.first % Modulus(kind)) - arg.first
    /\ arg.first \in 0..(Modulus(kind) - 1) => ret = arg.truth

\* The picture id unwrapper, started inside [0, M), has followed the values
\* out of [0, M) in MaxUnwraps calls.
C13_Witness ==
  /\ kind = "pictureIDUnwrapper"
  /\ calls = MaxUnwraps
  /\ arg.first \in 0..(pictureIDModulus - 1)
  /\ ret \notin 0..(pictureIDModulus - 1)

(***************************************************************************)
(* One unwrapper given arbitrary wire values                               *)
(***************************************************************************)

\* Wire values: the ends of the range and the values around half of it.
WireValues(M) == {0, 1, (M \div 2) - 1, M \div 2, (M \div 2) + 1, M - 1}

\* lastSeq of the sequence unwrapper, lastUnwrapped of the two others.
LastOf(k, u) == IF k = "sequenceUnwrapper" THEN u.lastSeq ELSE u.lastUnwrapped

\* The unwrapper's method is called with a wire value. The history keeps the
\* value and what the unwrapper held before the call.
WireCall ==
  /\ kind \in Unwrappers
  /\ calls < MaxUnwraps
  /\ \E value \in WireValues(Modulus(kind)) :
       LET r == Unwrap(kind, unwrapper, value)
       IN  /\ unwrapper' = r.u
           /\ ret' = r.value
           /\ arg' = [last |-> LastOf(kind, unwrapper), value |-> value]
  /\ calls' = calls + 1
  /\ UNCHANGED <<bufVars, kind, snf, fif, vpf, out, emitted, lastOut, order,
                  streamVars, recvVars>>

WireNext == WireCall

SpecWire == UnwrapInit /\ [][WireNext]_vars

\* C31: on every call after the first, each of the three unwrappers advances
\* its last value by a diff that is congruent to the wire value minus last
\* modulo M and lies in (-M/2, M/2], and returns the new last value; a wire
\* value exactly M/2 away is a forward step of M/2.
C31_HalfOpenDiff ==
  calls > 1 =>
    LET M == Modulus(kind)
        diff == ret - arg.last
    IN  /\ LastOf(kind, unwrapper) = ret
        /\ (diff - (arg.value - arg.last)) % M = 0
        /\ diff > -(M \div 2)
        /\ diff <= M \div 2

(***************************************************************************)
(* One reference finder given delta frames only, until its stash overflows *)
(***************************************************************************)

\* Frames stashed beyond the size of the stash.
StashOverflow == 2

\* Delta frames per behaviour.
MaxStashCalls == maxStashedFrames + StashOverflow

\* Arrival orders of the frames, by sort key (first unwrapped sequence number,
\* picture id): ascending, descending, and ascending from 1 with the frame of
\* key 0 arriving when the stash is full.
Orders == {"ascending", "descending", "late"}

\* The key of the n-th frame to arrive (n from 1).
StashKey(o, n) ==
  IF o = "ascending" THEN n - 1
  ELSE IF o = "descending" THEN MaxStashCalls - n
  ELSE IF n <= maxStashedFrames THEN n
  ELSE IF n = maxStashedFrames + 1 THEN 0
  ELSE n - 1

StashInit ==
  /\ buffer = NewVideoPacketBuffer
  /\ result = <<>>
  /\ kind \in {"SeqNumOnly", "VP8"}
  /\ snf = IF kind = "SeqNumOnly" THEN NewSeqNumOnlyRefFinder ELSE Nil
  /\ fif = Nil
  /\ vpf = IF kind = "VP8" THEN NewVP8RefFinder ELSE Nil
  /\ out = <<>>
  /\ emitted = {}
  /\ calls = 0
  /\ lastOut = Nil
  /\ order \in Orders
  /\ arg = Nil
  /\ NoCall
  /\ NoStream
  /\ NoReceiver

\* SeqNumOnlyRefFinder is given the next single-packet delta frame.
StashSeqNumOnly ==
  /\ kind = "SeqNumOnly"
  /\ calls < MaxStashCalls
  /\ LET key == StashKey(order, calls + 1)
          frame == AssembledFrame(key, key, FrameTypeDelta)
          header == FrameHeader(FrameTypeDelta, NoPictureID, NoTemporalIdx, NoTL0PicIdx)
      IN  \E r \in SeqNumOnly_ManageFrame(snf, frame, header) :
            /\ snf' = r.f
            /\ Returned(frame, header, r.out)
  /\ UNCHANGED <<fif, vpf>>

\* VP8RefFinder is given the next delta frame, of the base layer.
StashVP8 ==
  /\ kind = "VP8"
  /\ calls < MaxStashCalls
  /\ LET key == StashKey(order, calls + 1)
          frame == AssembledFrame(0, 0, FrameTypeDelta)
          header == FrameHeader(FrameTypeDelta, key, 0, 0)
      IN  \E r \in VP8_ManageFrame(vpf, frame, header) :
            /\ vpf' = r.f
            /\ Returned(frame, header, r.out)
  /\ UNCHANGED <<snf, fif>>

StashNext == StashSeqNumOnly \/ StashVP8

SpecStash == StashInit /\ [][StashNext]_vars

\* The sort keys of a stash of SeqNumOnlyRefFinder.
StashedFirstSeqs(stash) == [j \in DOMAIN stash |-> stash[j].frame.FirstSeqNumUnwrapped]

\* The sort keys of a stash of VP8RefFinder.
StashedPIDs(stash) == [j \in DOMAIN stash |-> stash[j].unwrappedPID]

\* The sort keys of the stashed frames, in stash order.
StashedKeys ==
  IF kind = "SeqNumOnly" THEN StashedFirstSeqs(snf.stashedFrames)
  ELSE StashedPIDs(vpf.stashedFrames)

KeySet(keys) == {keys[j] : j \in DOMAIN keys}

\* Among the stashed keys, the one whose frame arrived first.
EarliestStashed(keys) ==
  LET n0 == CHOOSE n \in 1..calls :
              /\ StashKey(order, n) \in KeySet(keys)
              /\ \A m \in 1..(n - 1) : StashKey(order, m) \notin KeySet(keys)
  IN  StashKey(order, n0)

\* The smallest of the stashed keys.
SmallestStashed(keys) == CHOOSE k \in KeySet(keys) : \A j \in KeySet(keys) : k <= j

\* A frame is stashed: the stash never exceeds maxStashedFrames entries, holds
\* the new frame, and when it was full has lost the entry `evicted` and no other.
StashStep(evicted) ==
  /\ Len(StashedKeys') <= maxStashedFrames
  /\ StashKey(order, calls + 1) \in KeySet(StashedKeys')
  /\ IF Len(StashedKeys) >= maxStashedFrames
        THEN KeySet(StashedKeys') =
               (KeySet(StashedKeys) \ {evicted}) \cup {StashKey(order, calls + 1)}
        ELSE KeySet(StashedKeys') = KeySet(StashedKeys) \cup {StashKey(order, calls + 1)}

\* C14: when a frame is stashed while the stash holds 100 entries, the entry
\* evicted is the one that was stashed earliest, the new frame is retained, and
\* the stash never holds more than 100 entries.
C14_EvictsEarliestStashed ==
  [][StashStep(EarliestStashed(StashedKeys))]_vars

\* C14 as it holds: the entry evicted is the one at index 0 of the sorted
\* stash, that is the one with the smallest first unwrapped sequence number
\* (SeqNumOnlyRefFinder) or unwrapped picture id (VP8RefFinder).
C14_EvictsSmallestKey ==
  [][StashStep(SmallestStashed(StashedKeys))]_vars

\* More frames were stashed than the stash holds, in other than ascending
\* order, and the stash is full.
C14_Witness ==
  /\ order # "ascending"
  /\ calls > maxStashedFrames
  /\ Len(StashedKeys) = maxStashedFrames

(***************************************************************************)
(* Packet buffer fed by a sender whose frame flags and timestamps are      *)
(* inconsistent                                                            *)
(***************************************************************************)

\* The packets the sender may send, any number of times and in any order:
\* sequence numbers 0..3 with either of two timestamps, 0 flagged first, 1
\* flagged first or not at all, 2 and 3 both flagged last, and two unflagged
\* packets that share the slots of 0 and 1. The caller may hand a packet over
\* with its Continuous field already set.
FlagPackets ==
  LET hdr(f, l) == RTPVideoHeader(FrameTypeDelta, f, l, NoPictureID, NoTemporalIdx, NoTL0PicIdx)
      pkt(seq, ts, f, l, c) == [BufferedPacket(seq, ts, <<>>, hdr(f, l), l) EXCEPT !.Continuous = c]
  IN  {pkt(0, ts, TRUE, FALSE, c) : ts \in BufTimestamps, c \in BOOLEAN}
        \cup {pkt(1, ts, f, FALSE, c) : ts \in BufTimestamps, f \in BOOLEAN, c \in BOOLEAN}
        \cup {pkt(seq, ts, FALSE, TRUE, c) : seq \in {2, 3}, ts \in BufTimestamps, c \in BOOLEAN}
        \cup {pkt(seq, 1, FALSE, FALSE, c) : seq \in {size, size + 1}, c \in BOOLEAN}

\* b.InsertPacket(pkt) for one of these packets; arg keeps the packet given.
FlagsInsert ==
  \E pkt \in FlagPackets :
    LET r == InsertPacket(buffer, pkt)
    IN  /\ buffer' = r.buffer
        /\ result' = r.Frames
        /\ arg' = pkt
        /\ UNCHANGED <<kind, snf, fif, vpf, out, emitted, calls, lastOut, order,
                        callVars, streamVars, recvVars>>

FlagsNext == FlagsInsert

SpecFlags == BufInit /\ [][FlagsNext]_vars

\* The packets of frame that carry IsFirstPacketInFrame, and IsLastPacketInFrame.
FirstFlagged(frame) == {j \in DOMAIN frame : IsFirstPkt(frame[j])}
LastFlagged(frame) == {j \in DOMAIN frame : IsLastPkt(frame[j])}

\* C29: in every frame returned by InsertPacket the first packet, and no
\* other, has IsFirstPacketInFrame, and the last packet, and no other, has
\* IsLastPacketInFrame.
C29_OneFirstOneLast ==
  \A i \in DOMAIN result :
    /\ FirstFlagged(result[i]) = {1}
    /\ LastFlagged(result[i]) = {Len(result[i])}

\* Packets a and b are the same but for the Continuous field.
SamePacket(a, b) == [a EXCEPT !.Continuous = FALSE] = [b EXCEPT !.Continuous = FALSE]

\* The slot of the packet given to the call.
GivenSlot == seqNumToIndex(arg'.SequenceNumber)

\* The slot of the packet given holds a packet with its sequence number
\* before the call.
GivenIsDuplicate ==
  buffer[GivenSlot] # Nil /\ buffer[GivenSlot].SequenceNumber = arg'.SequenceNumber

\* The call returns the packet given in a frame.
GivenInFrame ==
  \E i \in DOMAIN result' : \E j \in DOMAIN result'[i] : SamePacket(result'[i][j], arg')

\* The packet before the one given, with its timestamp, is in the buffer
\* before the call.
GivenHasPredecessor ==
  LET prev == buffer[seqNumToIndex(arg'.SequenceNumber - 1)]
  IN  /\ prev # Nil
      /\ prev.SequenceNumber = arg'.SequenceNumber - 1
      /\ prev.Timestamp = arg'.Timestamp

\* C30: InsertPacket of a packet whose slot holds a packet with the same
\* sequence number returns no frame and leaves every slot and every Continuous
\* flag as it was. Any other insert replaces the content of the slot by the
\* packet given: afterwards the slot holds that packet, or is empty because
\* the call returned the packet in a frame; the Continuous field the packet
\* came with is discarded, so that the packet is Continuous afterwards only
\* if it starts a frame or follows a packet that is in the buffer.
C30_InsertReplacesSlot ==
  [][IF GivenIsDuplicate
       THEN result' = <<>> /\ buffer' = buffer
       ELSE /\ IF buffer'[GivenSlot] = Nil THEN GivenInFrame
                ELSE SamePacket(buffer'[GivenSlot], arg')
            /\ \A i \in DOMAIN result' : \A j \in DOMAIN result'[i] :
                 result'[i][j].Continuous
            /\ (buffer'[GivenSlot] # Nil /\ buffer'[GivenSlot].Continuous)
                 => (IsFirstPkt(arg') \/ GivenHasPredecessor)
    ]_vars

\* The packet with sequence number size, handed over with Continuous set, took
\* the slot of packet 0 after packet 1 had become continuous through 0; it is
\* stored with Continuous false.
C30_Witness ==
  /\ arg # Nil /\ arg.SequenceNumber = size /\ arg.Continuous
  /\ buffer[0] # Nil /\ SamePacket(buffer[0], arg) /\ ~buffer[0].Continuous
  /\ buffer[1] # Nil /\ buffer[1].SequenceNumber = 1
  /\ buffer[1].Continuous /\ ~IsFirstPkt(buffer[1])

(***************************************************************************)
(* Construction: NewVideoPacketBuffer, NewInterceptor, BindRemoteStream    *)
(***************************************************************************)

defaultPacketBufferSize == 512

RECURSIVE BitAnd(_, _)
\* a & b on unsigned integers
BitAnd(a, b) ==
  IF a = 0 \/ b = 0 THEN 0
  ELSE (a % 2) * (b % 2) + 2 * BitAnd(a \div 2, b \div 2)

\* NewVideoPacketBuffer that tests the range of the size only.
NewVideoPacketBufferSized_RangeOnly(bufSize) ==
  IF bufSize < 64 \/ bufSize > 2048
    THEN [buffer |-> Nil, err |-> [msg |-> "invalid buffer size"]]
    ELSE [buffer |-> [i \in 0..(bufSize - 1) |-> Nil], err |-> Nil]

\* NewVideoPacketBuffer(size uint16): the buffer (its slots, all nil) and the error.
NewVideoPacketBufferSized(bufSize) ==
  IF \/ bufSize = 0
     \/ BitAnd(bufSize, (bufSize - 1) % 65536) # 0
     \/ bufSize < 64
     \/ bufSize > 2048
    THEN [buffer |-> Nil, err |-> [msg |-> "invalid buffer size"]]
    ELSE [buffer |-> [i \in 0..(bufSize - 1) |-> Nil], err |-> Nil]

\* WithPacketBufferSize(size): the option applied to interceptor r, and its error.
WithPacketBufferSize(r, bufSize) ==
  [r |-> [r EXCEPT !.packetBufferSize = bufSize], err |-> Nil]

RECURSIVE ApplyOptions(_, _, _)
\* for _, opt := range f.opts { if err := opt(r); err != nil { return nil, err } }
\* over the first n options; an option is the size given to WithPacketBufferSize.
ApplyOptions(r, opts, n) ==
  IF n = 0 THEN [r |-> r, err |-> Nil]
  ELSE LET before == ApplyOptions(r, opts, n - 1)
       IN  IF before.err # Nil THEN before
           ELSE WithPacketBufferSize(before.r, opts[n])

\* ReceiverInterceptorFactory.NewInterceptor: the interceptor and the error.
NewInterceptor(opts) ==
  LET applied == ApplyOptions([packetBufferSize |-> defaultPacketBufferSize], opts, Len(opts))
  IN  IF applied.err # Nil THEN [interceptor |-> Nil, err |-> applied.err]
      ELSE [interceptor |-> applied.r, err |-> Nil]

\* A MIME type is the sequence of its characters' codes.
mimeVP8 == <<118, 105, 100, 101, 111, 47, 86, 80, 56>>

\* unicode.SimpleFold on the characters of a MIME type: letters A-Z and a-z.
FoldChar(c) == IF c \in 65..90 THEN c + 32 ELSE c

\* strings.EqualFold that compares the characters as they are.
EqualFold_Exact(a, b) == a = b

\* strings.EqualFold(a, b)
EqualFold(a, b) ==
  /\ Len(a) = Len(b)
  /\ \A i \in 1..Len(a) : FoldChar(a[i]) = FoldChar(b[i])

isVP8Stream(info) ==
  IF info = Nil THEN FALSE ELSE EqualFold(info.MimeType, mimeVP8)

\* getOrCreateStreamState that hands out the state of a stream that has one,
\* whatever its SSRC.
getOrCreateStreamState_Shared(r, ssrcs, ssrc) ==
  IF ssrcs # {}
    THEN [streams |-> ssrcs, state |-> CHOOSE s \in ssrcs : TRUE, err |-> Nil]
    ELSE [streams |-> {ssrc}, state |-> ssrc, err |-> Nil]

\* r.getOrCreateStreamState(ssrc): the SSRCs with a stream state afterwards, the
\* state returned (a stream state is identified by the SSRC it was made for)
\* and the error.
getOrCreateStreamState(r, ssrcs, ssrc) ==
  IF ssrc \in ssrcs THEN [streams |-> ssrcs, state |-> ssrc, err |-> Nil]
  ELSE LET made == NewVideoPacketBufferSized(r.packetBufferSize)
       IN  IF made.err # Nil THEN [streams |-> ssrcs, state |-> Nil, err |-> made.err]
           ELSE [streams |-> ssrcs \cup {ssrc}, state |-> ssrc, err |-> Nil]

\* r.BindRemoteStream(info, reader): the reader returned, either the reader
\* given ("upstream") or the RTPReaderFunc that assembles frames
\* ("videoframe"), and the SSRCs with a stream state afterwards.
BindRemoteStream(r, ssrcs, info) ==
  IF ~isVP8Stream(info) THEN [reader |-> "upstream", streams |-> ssrcs]
  ELSE LET got == getOrCreateStreamState(r, ssrcs, info.SSRC)
       IN  IF got.err # Nil THEN [reader |-> "upstream", streams |-> ssrcs]
           ELSE [reader |-> "videoframe", streams |-> got.streams]

\* Calls made on one factory and its interceptor.
MaxBindCalls == 3

\* Sizes given to NewVideoPacketBuffer and WithPacketBufferSize: the powers of
\* two of 16 bits, their neighbours around the allowed range, and others.
BufferSizes ==
  {0, 1, 2, 16, 32, 63, 64, 65, 96, 100, 128, 192, 256, 512, 1000, 1024,
   2047, 2048, 2049, 4096, 8192, 16384, 32768, 65535}

\* Option lists given to the factory: none, one size, or two sizes.
OptionLists ==
  {<<>>} \cup {<<s>> : s \in BufferSizes} \cup {<<100, 256>>, <<256, 100>>}

MimeTypes ==
  {
   <<118, 105, 100, 101, 111, 47, 86, 80, 56>>,   \* video/VP8
   <<118, 105, 100, 101, 111, 47, 118, 112, 56>>,   \* video/vp8
   <<86, 73, 68, 69, 79, 47, 86, 80, 56>>,   \* VIDEO/VP8
   <<86, 105, 100, 101, 111, 47, 86, 112, 56>>,   \* Video/Vp8
   <<118, 105, 100, 101, 111, 47, 86, 80, 57>>,   \* video/VP9
   <<118, 105, 100, 101, 111, 47, 86, 80, 56, 48>>,   \* video/VP80
   <<118, 105, 100, 101, 111, 47, 86, 80>>,   \* video/VP
   <<118, 105, 100, 101, 111, 47, 72, 50, 54, 52>>,   \* video/H264
   <<97, 117, 100, 105, 111, 47, 111, 112, 117, 115>>,   \* audio/opus
   <<>>}   \* the empty string

\* StreamInfo values, nil included.
StreamInfos ==
  {Nil} \cup {[SSRC |-> ss, MimeType |-> m] : ss \in {SSRC, SSRC + 1}, m \in MimeTypes}

BindInit ==
  /\ buffer = NewVideoPacketBuffer
  /\ result = <<>>
  /\ kind = "bind"
  /\ snf = Nil
  /\ fif = Nil
  /\ vpf = Nil
  /\ out = <<>>
  /\ emitted = {}
  /\ calls = 0
  /\ lastOut = Nil
  /\ order = "none"
  /\ arg = Nil
  /\ NoCall
  /\ NoStream
  /\ NoReceiver

\* What a call of this section leaves alone.
BindUnchanged ==
  UNCHANGED <<bufVars, kind, snf, fif, vpf, out, emitted, lastOut, order, unwrapper,
              streamVars, stream, mutex, procs, states,
              seqUnwrapper, frameIDCounter, published, history>>

\* NewVideoPacketBuffer(size) called on its own.
CallNewVideoPacketBuffer ==
  /\ kind = "bind"
  /\ calls < MaxBindCalls
  /\ \E bufSize \in BufferSizes :
       /\ arg' = [op |-> "NewVideoPacketBuffer", size |-> bufSize]
       /\ ret' = NewVideoPacketBufferSized(bufSize)
  /\ calls' = calls + 1
  /\ UNCHANGED <<interceptor, streams>>
  /\ BindUnchanged

\* NewReceiverInterceptor(opts...) and NewInterceptor on the factory.
CallNewInterceptor ==
  /\ kind = "bind"
  /\ calls < MaxBindCalls
  /\ interceptor = Nil
  /\ \E opts \in OptionLists :
       /\ arg' = [op |-> "NewInterceptor", opts |-> opts]
       /\ ret' = NewInterceptor(opts)
       /\ interceptor' = NewInterceptor(opts).interceptor
  /\ calls' = calls + 1
  /\ UNCHANGED streams
  /\ BindUnchanged

\* BindRemoteStream(info, reader) on the interceptor.
CallBindRemoteStream ==
  /\ kind = "bind"
  /\ calls < MaxBindCalls
  /\ interceptor # Nil
  /\ \E info \in StreamInfos :
       LET r == BindRemoteStream(interceptor, streams, info)
       IN  /\ arg' = [op |-> "BindRemoteStream", info |-> info]
           /\ ret' = [reader |-> r.reader]
           /\ streams' = r.streams
  /\ calls' = calls + 1
  /\ UNCHANGED interceptor
  /\ BindUnchanged

BindNext == CallNewVideoPacketBuffer \/ CallNewInterceptor \/ CallBindRemoteStream

SpecBind == BindInit /\ [][BindNext]_vars

\* The sizes the claims allow.
AllowedSizes == {64, 128, 256, 512, 1024, 2048}

\* C25: NewVideoPacketBuffer(size) returns a buffer of size slots and no
\* error exactly when size is one of 64, 128, 256, 512, 1024, 2048, and an
\* error and no buffer for every other size.
C25_BufferSizes ==
  (kind = "bind" /\ arg # Nil /\ arg.op = "NewVideoPacketBuffer") =>
    IF arg.size \in AllowedSizes
      THEN ret.err = Nil /\ ret.buffer # Nil /\ DOMAIN ret.buffer = 0..(arg.size - 1)
      ELSE ret.err # Nil /\ ret.buffer = Nil

\* The largest size was accepted.
C25_Witness ==
  /\ kind = "bind" /\ arg # Nil /\ arg.op = "NewVideoPacketBuffer"
  /\ arg.size = 2048
  /\ ret.buffer # Nil

\* C26: no interceptor holds a packet-buffer size outside 64, 128, 256, 512,
\* 1024, 2048: NewInterceptor with such an option returns an error and no
\* interceptor.
C26_NoInvalidInterceptor ==
  /\ interceptor # Nil => interceptor.packetBufferSize \in AllowedSizes
  /\ (kind = "bind" /\ arg # Nil /\ arg.op = "NewInterceptor"
        /\ \E n \in DOMAIN arg.opts : arg.opts[n] \notin AllowedSizes)
       => (ret.err # Nil /\ ret.interceptor = Nil)

\* The characters c can stand for when case is ignored.
CaseVariants(c) ==
  IF c \in 65..90 THEN {c, c + 32}
  ELSE IF c \in 97..122 THEN {c, c - 32}
  ELSE {c}

\* The MIME type of info is "video/VP8" in some spelling of upper and lower case.
NamesVP8(info) ==
  /\ info # Nil
  /\ Len(info.MimeType) = Len(mimeVP8)
  /\ \A i \in 1..Len(mimeVP8) : info.MimeType[i] \in CaseVariants(mimeVP8[i])

\* C23: BindRemoteStream returns the reader it was given exactly when the
\* MIME type is not "video/VP8" with case ignored, or when the stream state
\* cannot be created because of the buffer size; for a MIME type other than
\* VP8 no stream state is created, and the reader that assembles frames is
\* returned only with a stream state for the SSRC.
C23_PassThrough ==
  [][(kind = "bind" /\ calls' = calls + 1 /\ arg'.op = "BindRemoteStream") =>
       LET info == arg'.info
           createFails == /\ NamesVP8(info)
                          /\ info.SSRC \notin streams
                          /\ interceptor.packetBufferSize \notin AllowedSizes
       IN  /\ ret'.reader = "upstream" <=> (~NamesVP8(info) \/ createFails)
           /\ ret'.reader = "videoframe" <=> ~(~NamesVP8(info) \/ createFails)
           /\ ~NamesVP8(info) => streams' = streams
           /\ createFails => streams' = streams
           /\ ret'.reader = "videoframe" => streams' = streams \cup {info.SSRC}
    ]_vars

\* A stream announced as "VIDEO/VP8" got the reader that assembles frames and
\* a stream state, after a stream of another type was passed through.
C23_Witness ==
  /\ kind = "bind" /\ arg # Nil /\ arg.op = "BindRemoteStream"
  /\ arg.info # Nil /\ arg.info.MimeType = <<86, 73, 68, 69, 79, 47, 86, 80, 56>>
  /\ ret.reader = "videoframe"
  /\ streams = {arg.info.SSRC}
  /\ calls = MaxBindCalls

(***************************************************************************)
(* The reader of BindRemoteStream, from the bytes read to the attributes   *)
(***************************************************************************)

EncodedFramesKey == "videoframe.EncodedFrames"
EncodedFrameKey == "videoframe.EncodedFrame"

RECURSIVE BigEndian(_, _)
\* v in count bytes, the most significant first.
BigEndian(v, count) ==
  IF count = 0 THEN <<>> ELSE BigEndian(v \div 256, count - 1) \o <<v % 256>>

RECURSIVE Uint(_)
\* binary.BigEndian.Uint16 / Uint32 of the bytes.
Uint(bytes) ==
  IF Len(bytes) = 0 THEN 0
  ELSE Uint(SubSeq(bytes, 1, Len(bytes) - 1)) * 256 + bytes[Len(bytes)]

\* What the sender puts on the wire for a packet (RFC 3550): the fixed header
\* with version 2, no padding, no extension, no CSRC and payload type 96,
\* followed by the payload.
RTPMarshal(pkt, payload) ==
  <<128, (IF pkt.Marker THEN 128 ELSE 0) + 96>>
    \o BigEndian(pkt.SequenceNumber, 2)
    \o BigEndian(pkt.Timestamp, 4)
    \o BigEndian(pkt.SSRC, 4)
    \o payload

\* The VP8 payload descriptor the sender writes (RFC 7741): the first byte
\* X|R|N|S|R|PID, the extension byte I|L|T|K when a field follows, the picture
\* id in 7 bits or, with the M bit, in 15 bits, TL0PICIDX, and TID|Y|KEYIDX.
VP8Descriptor(pkt) ==
  LET x == IF pkt.I = 1 \/ pkt.L = 1 \/ pkt.T = 1 THEN 1 ELSE 0
  IN  <<x * 128 + pkt.S * 16 + pkt.PID>>
        \o (IF x = 1 THEN <<pkt.I * 128 + pkt.L * 64 + pkt.T * 32>> ELSE <<>>)
        \o (IF pkt.I = 0 THEN <<>>
            ELSE IF pkt.M = 1 THEN <<128 + pkt.PictureID \div 256, pkt.PictureID % 256>>
            ELSE <<pkt.PictureID>>)
        \o (IF pkt.L = 1 THEN <<pkt.TL0PICIDX>> ELSE <<>>)
        \o (IF pkt.T = 1 THEN <<pkt.TID * 64>> ELSE <<>>)

\* pkt.Unmarshal(b[:n]) of rtp.Packet on a header without extension and
\* padding: the error, or the fields the reader uses.
RTPUnmarshal(buf) ==
  LET headerLen == 12 + 4 * (buf[1] % 16)
  IN  IF Len(buf) < 12 \/ Len(buf) < headerLen
        THEN [err |-> [msg |-> "RTP header size insufficient"]]
        ELSE [err |-> Nil,
              Marker |-> buf[2] >= 128,
              SequenceNumber |-> Uint(SubSeq(buf, 3, 4)),
              Timestamp |-> Uint(SubSeq(buf, 5, 8)),
              SSRC |-> Uint(SubSeq(buf, 9, 12)),
              Payload |-> SubSeq(buf, headerLen + 1, Len(buf))]

\* The fields of codecs.VP8Packet after a parse that consumed the descriptor
\* up to index rest - 1.
VP8Packet(payload, b0, b1, pictureID, tl0PicIdx, tid, rest) ==
  [err |-> Nil,
   S |-> (b0 \div 16) % 2,
   PID |-> b0 % 8,
   I |-> (b1 \div 128) % 2,
   PictureID |-> pictureID,
   L |-> (b1 \div 64) % 2,
   TL0PICIDX |-> tl0PicIdx,
   T |-> (b1 \div 32) % 2,
   TID |-> tid,
   Payload |-> SubSeq(payload, rest, Len(payload))]

\* Where the parse of the descriptor stands: the error, or the index of the
\* first byte after the descriptor and the fields read.
VP8DescriptorFields(payload) ==
  LET len == Len(payload)
      short == [err |-> [msg |-> "packet is not large enough"]]
      b0 == payload[1]
      X == (b0 \div 128) % 2
      b1 == IF X = 1 THEN payload[2] ELSE 0
      I == (b1 \div 128) % 2
      L == (b1 \div 64) % 2
      T == (b1 \div 32) % 2
      K == (b1 \div 16) % 2
      i2 == 2 + X
      M == IF I = 1 /\ payload[i2] >= 128 THEN 1 ELSE 0
      pictureID == IF I = 0 THEN 0
                   ELSE IF M = 1 THEN (payload[i2] % 128) * 256 + payload[i2 + 1]
                   ELSE payload[i2]
      i3 == i2 + I + M
      tl0PicIdx == IF L = 1 THEN payload[i3] ELSE 0
      i4 == i3 + L
      tid == IF T = 1 THEN payload[i4] \div 64 ELSE 0
      rest == i4 + (IF T = 1 \/ K = 1 THEN 1 ELSE 0)
  IN  IF len < 1 THEN short
      ELSE IF X = 1 /\ len < 2 THEN short
      ELSE IF I = 1 /\ len < i2 THEN short
      ELSE IF M = 1 /\ len < i2 + 1 THEN short
      ELSE IF L = 1 /\ len < i3 THEN short
      ELSE IF (T = 1 \/ K = 1) /\ len < i4 THEN short
      ELSE [err |-> Nil, b0 |-> b0, b1 |-> b1, pictureID |-> pictureID,
            tl0PicIdx |-> tl0PicIdx, tid |-> tid, rest |-> rest]

\* vp8.Unmarshal that leaves the descriptor in the payload.
VP8Unmarshal_KeepDescriptor(payload) ==
  LET d == VP8DescriptorFields(payload)
  IN  IF d.err # Nil THEN d
      ELSE VP8Packet(payload, d.b0, d.b1, d.pictureID, d.tl0PicIdx, d.tid, 1)

\* vp8.Unmarshal(pkt.Payload) of codecs.VP8Packet: the error, or the fields of
\* the descriptor and the payload that follows it.
VP8Unmarshal(payload) ==
  LET d == VP8DescriptorFields(payload)
  IN  IF d.err # Nil THEN d
      ELSE VP8Packet(payload, d.b0, d.b1, d.pictureID, d.tl0PicIdx, d.tid, d.rest)

\* What a read that ends before InsertPacket leaves: the read is over.
ReadOver(state, err) ==
  [done |-> TRUE, err |-> err, state |-> state, pkt |-> Nil]

\* The reader that unwraps the sequence number as soon as the RTP header is
\* parsed.
ReadStart_UnwrapFirst(state, b, up) ==
  IF up.err # Nil THEN ReadOver(state, up.err)
  ELSE LET rtp == RTPUnmarshal(SubSeq(b, 1, up.n))
       IN  IF rtp.err # Nil THEN ReadOver(state, Nil)
           ELSE LET w == unwrap(state.seqUnwrapper, rtp.SequenceNumber)
                    vp8 == VP8Unmarshal(rtp.Payload)
                    unwrapped == [state EXCEPT !.seqUnwrapper = w.u]
                IN  IF vp8.err # Nil THEN ReadOver(unwrapped, Nil)
                    ELSE [done |-> FALSE, err |-> Nil, state |-> unwrapped,
                          pkt |-> BufferedPacket(w.value, rtp.Timestamp, vp8.Payload,
                                   NewRTPVideoHeaderFromVP8(vp8, rtp.Marker), rtp.Marker)]

\* The reader up to the packet it is about to insert. up: what reader.Read(b, a)
\* returned, b: the read buffer it filled. The result: whether the read is
\* over, the error it returns then, the stream state, and the BufferedPacket
\* made of the copied payload.
ReadStart(state, b, up) ==
  IF up.err # Nil THEN ReadOver(state, up.err)
  ELSE LET rtp == RTPUnmarshal(SubSeq(b, 1, up.n))
       IN  IF rtp.err # Nil THEN ReadOver(state, Nil)
           ELSE LET vp8 == VP8Unmarshal(rtp.Payload)
                IN  IF vp8.err # Nil THEN ReadOver(state, Nil)
                    ELSE LET videoHeader == NewRTPVideoHeaderFromVP8(vp8, rtp.Marker)
                             w == unwrap(state.seqUnwrapper, rtp.SequenceNumber)
                         IN  [done |-> FALSE, err |-> Nil,
                              state |-> [state EXCEPT !.seqUnwrapper = w.u],
                              pkt |-> BufferedPacket(w.value, rtp.Timestamp, vp8.Payload,
                                                     videoHeader, rtp.Marker)]

\* attrs.Set(key, value); attrs is a map.
Set(attrs, key, value) ==
  [k \in (DOMAIN attrs) \cup {key} |-> IF k = key THEN value ELSE attrs[k]]

\* The attributes with EncodedFramesKey set whether or not a frame was resolved.
SetEncodedFrames_Always(attrs, resolvedFrames) ==
  LET made == IF attrs = Nil THEN <<>> ELSE attrs
      listed == Set(made, EncodedFramesKey, resolvedFrames)
  IN  IF Len(resolvedFrames) > 0 THEN Set(listed, EncodedFrameKey, resolvedFrames[1])
      ELSE listed

\* The attributes the read returns: if len(resolvedFrames) > 0 both keys are set,
\* on a map made when attrs is nil.
SetEncodedFrames(attrs, resolvedFrames) ==
  IF Len(resolvedFrames) > 0
    THEN LET made == IF attrs = Nil THEN <<>> ELSE attrs
         IN  Set(Set(made, EncodedFramesKey, resolvedFrames), EncodedFrameKey, resolvedFrames[1])
    ELSE attrs

(***************************************************************************)
(* Two VP8 streams read concurrently through one interceptor               *)
(***************************************************************************)

\* Calls of UnbindRemoteStream and Close made while the streams are read.
MaxRemovals == 1

\* Length of the buffer a goroutine passes to every Read.
ReadBufferLen == 24

\* The VP8 descriptor fields of a packet without extension, with a picture id
\* only, and with picture id, temporal index and TL0PICIDX.
NoExtension ==
  [I |-> 0, M |-> 0, PictureID |-> 0, L |-> 0, TL0PICIDX |-> 0, T |-> 0, TID |-> 0]

PictureIDOnly(pictureID) ==
  [NoExtension EXCEPT !.I = 1, !.M = IF pictureID > 127 THEN 1 ELSE 0,
                      !.PictureID = pictureID]

AllFields(pictureID, tid, tl0PicIdx) ==
  [PictureIDOnly(pictureID) EXCEPT !.L = 1, !.TL0PICIDX = tl0PicIdx, !.T = 1, !.TID = tid]

\* A packet as the sender makes it. s: the packet starts a frame; marker: it
\* ends one. The first payload byte of a frame has bit 0 clear for a key frame.
SentPacket(ssrc, seq, ts, marker, s, ext, payload) ==
  [SSRC |-> ssrc, SequenceNumber |-> seq, Timestamp |-> ts, Marker |-> marker,
   S |-> s, PID |-> 0,
   I |-> ext.I, M |-> ext.M, PictureID |-> ext.PictureID,
   L |-> ext.L, TL0PICIDX |-> ext.TL0PICIDX,
   T |-> ext.T, TID |-> ext.TID,
   Payload |-> payload]

\* What one call of the upstream reader delivers: the bytes it writes into the
\* read buffer, the attributes and the error it returns.
\*   packet - a whole packet of the sender
\*   rtp    - fewer bytes than an RTP header
\*   vp8    - an RTP packet whose VP8 descriptor breaks off inside the picture id
\*   error  - no bytes and an error
PacketRead(sent, attrs) ==
  [kind |-> "packet", sent |-> sent,
   bytes |-> RTPMarshal(sent, VP8Descriptor(sent) \o sent.Payload),
   attrs |-> attrs, err |-> Nil]

ShortRTPRead(attrs) ==
  [kind |-> "rtp", sent |-> Nil, bytes |-> <<128, 96, 1, 244>>, attrs |-> attrs, err |-> Nil]

BadVP8Read(sent, attrs) ==
  [kind |-> "vp8", sent |-> Nil,
   bytes |-> RTPMarshal(sent, SubSeq(VP8Descriptor(sent), 1, 3)),
   attrs |-> attrs, err |-> Nil]

ErrorRead(attrs) ==
  [kind |-> "error", sent |-> Nil, bytes |-> <<>>, attrs |-> attrs, err |-> [msg |-> "EOF"]]

\* The attribute maps the upstream reader returns: none, an empty one, and one
\* with a key of another interceptor.
OtherAttrs == [trace |-> 7]

\* What the two goroutines read, per stream: the SSRC and the reads in order.
\*   plain     - no extension fields; a key frame of two packets whose sequence
\*               numbers wrap, a short read in between, then a delta frame
\*   reordered - all extension fields; the third frame arrives before the second
\*   layers    - all extension fields; a broken descriptor and an upstream
\*               error among the packets
\*   idsB      - the second stream, 15-bit picture ids only
\*   layersB   - the second stream, all extension fields, TL0PICIDX wraps
\*   brokenB   - the second stream, a broken descriptor before the key frame
ReaderScripts ==
  [plain |->
     [ssrc |-> SSRC,
      reads |-> <<PacketRead(SentPacket(SSRC, 65535, 90000, FALSE, 1, NoExtension, <<16, 1, 2, 3>>), Nil),
                  ShortRTPRead(Nil),
                  PacketRead(SentPacket(SSRC, 0, 90000, TRUE, 0, NoExtension, <<4, 5, 6>>), <<>>),
                  PacketRead(SentPacket(SSRC, 1, 93000, TRUE, 1, NoExtension, <<17, 7, 8>>), OtherAttrs)>>],
   reordered |->
     [ssrc |-> SSRC,
      reads |-> <<PacketRead(SentPacket(SSRC, 10, 3000, TRUE, 1, AllFields(20, 0, 3), <<16, 9, 9, 9>>), <<>>),
                  PacketRead(SentPacket(SSRC, 12, 9000, TRUE, 1, AllFields(22, 0, 5), <<19, 3, 3>>), Nil),
                  PacketRead(SentPacket(SSRC, 11, 6000, TRUE, 1, AllFields(21, 0, 4), <<17, 2, 2>>), Nil)>>],
   layers |->
     [ssrc |-> SSRC,
      reads |-> <<PacketRead(SentPacket(SSRC, 100, 3000, TRUE, 1, AllFields(5, 0, 7), <<16, 1, 1, 1>>), OtherAttrs),
                  BadVP8Read(SentPacket(SSRC, 500, 6000, TRUE, 1, AllFields(400, 1, 7), <<>>), OtherAttrs),
                  PacketRead(SentPacket(SSRC, 101, 6000, TRUE, 1, AllFields(6, 1, 7), <<17, 2, 2, 2>>), Nil),
                  ErrorRead(<<>>)>>],
   idsB |->
     [ssrc |-> SSRC + 1,
      reads |-> <<PacketRead(SentPacket(SSRC + 1, 7, 3000, TRUE, 1, PictureIDOnly(300), <<16, 21, 22, 23>>), Nil),
                  PacketRead(SentPacket(SSRC + 1, 8, 6000, TRUE, 1, PictureIDOnly(301), <<17, 24, 25>>), Nil)>>],
   layersB |->
     [ssrc |-> SSRC + 1,
      reads |-> <<PacketRead(SentPacket(SSRC + 1, 100, 3000, TRUE, 1, AllFields(127, 0, 255), <<16, 31, 32, 33>>), <<>>),
                  PacketRead(SentPacket(SSRC + 1, 101, 6000, TRUE, 1, AllFields(128, 0, 0), <<17, 34, 35, 36>>), <<>>)>>],
   brokenB |->
     [ssrc |-> SSRC + 1,
      reads |-> <<BadVP8Read(SentPacket(SSRC + 1, 500, 3000, TRUE, 1, AllFields(400, 0, 0), <<>>), Nil),
                  PacketRead(SentPacket(SSRC + 1, 7, 3000, TRUE, 1, NoExtension, <<16, 41, 42, 43>>), OtherAttrs)>>]]

\* The goroutines that read a stream each, and the one that unbinds and closes.
Readers == {"a", "b"}

ScriptOf(p) == ReaderScripts[stream[p]]

\* A goroutine that is about to call BindRemoteStream for its stream.
NewReader ==
  [pc |-> "start", state |-> Nil, b |-> [i \in 1..ReadBufferLen |-> 0], reads |-> 0,
   up |-> Nil, before |-> Nil, pkt |-> Nil, frames |-> <<>>, k |-> 0, frame |-> Nil,
   resolved |-> <<>>, returns |-> <<>>]

ReadersInit ==
  /\ kind = "readers"
  /\ stream \in {[a |-> x, b |-> y] : x \in {"plain", "reordered", "layers"},
                                      y \in {"idsB", "layersB", "brokenB"}}
  /\ streams = {}
  /\ interceptor = NewInterceptor(<<size>>).interceptor
  /\ mutex = Nil
  /\ states = <<>>
  /\ procs = [p \in Readers \cup {"ctl"} |->
                IF p = "ctl" THEN [pc |-> "idle", op |-> Nil, removals |-> 0] ELSE NewReader]
  /\ buffer = NewVideoPacketBuffer
  /\ result = <<>>
  /\ snf = Nil
  /\ fif = Nil
  /\ vpf = Nil
  /\ out = <<>>
  /\ emitted = {}
  /\ calls = 0
  /\ lastOut = Nil
  /\ order = "none"
  /\ arg = Nil
  /\ NoCall
  /\ NoStream
  /\ seqUnwrapper = NewSequenceUnwrapper
  /\ frameIDCounter = 0
  /\ published = <<>>
  /\ history = <<>>

\* What a step of a goroutine leaves alone.
ReadersUnchanged ==
  UNCHANGED <<bufVars, finderVars, callVars, streamVars,
              stream, interceptor, seqUnwrapper, frameIDCounter, published, history>>

\* The mutex while goroutine p holds it.
HeldBy(p) == [holder |-> p]

\* r.streamsMu.Lock() that does not wait for the mutex.
Lock_NoWait(p) == mutex' = HeldBy(p)

\* r.streamsMu.Lock() by goroutine p: returns once the mutex is free.
Lock(p) == mutex = Nil /\ mutex' = HeldBy(p)

\* r.streamsMu.Unlock()
Unlock == mutex' = Nil

\* The goroutine after its read returned n, attrs and err; what the read
\* returned and the stream state before and after it are kept.
ReturnFromRead(pr, up, attrs, err, resolvedFrames, before, after) ==
  [pr EXCEPT !.pc = "idle", !.reads = @ + 1,
             !.up = Nil, !.before = Nil, !.pkt = Nil, !.frames = <<>>, !.k = 0,
             !.frame = Nil, !.resolved = <<>>,
             !.returns = Append(@, [n |-> up.n, attrs |-> attrs, err |-> err,
                                    resolved |-> resolvedFrames,
                                    before |-> before, after |-> after])]

\* BindRemoteStream for a VP8 stream: r.streamsMu.Lock().
BindLock(p) ==
  /\ procs[p].pc = "start"
  /\ isVP8Stream([SSRC |-> ScriptOf(p).ssrc, MimeType |-> mimeVP8])
  /\ Lock(p)
  /\ procs' = [procs EXCEPT ![p].pc = "create"]
  /\ UNCHANGED <<streams, states>>
  /\ ReadersUnchanged

\* BindRemoteStream: getOrCreateStreamState, Unlock, and the reader is returned.
BindCreate(p) ==
  /\ procs[p].pc = "create"
  /\ LET got == getOrCreateStreamState(interceptor, streams, ScriptOf(p).ssrc)
     IN  /\ streams' = got.streams
         /\ states' = IF got.streams = streams THEN states
                      ELSE [s \in (DOMAIN states) \cup {got.state} |->
                              IF s = got.state THEN NewStreamState ELSE states[s]]
         /\ procs' = [procs EXCEPT ![p].pc = "idle", ![p].state = got.state]
  /\ Unlock
  /\ ReadersUnchanged

\* A Read: the upstream reader fills the read buffer, the packet is parsed, the
\* sequence number unwrapped and the payload copied.
ReadUpstream(p) ==
  LET pr == procs[p]
  IN  /\ pr.pc = "idle"
      /\ pr.reads < Len(ScriptOf(p).reads)
      /\ LET rd == ScriptOf(p).reads[pr.reads + 1]
             b == rd.bytes \o SubSeq(pr.b, Len(rd.bytes) + 1, Len(pr.b))
             up == [n |-> Len(rd.bytes), attrs |-> rd.attrs, err |-> rd.err]
             s == ReadStart(states[pr.state], b, up)
         IN  /\ states' = [states EXCEPT ![pr.state] = s.state]
             /\ procs' = [procs EXCEPT ![p] =
                  IF s.done
                    THEN ReturnFromRead([pr EXCEPT !.b = b], up, up.attrs, s.err, <<>>,
                                        states[pr.state], s.state)
                    ELSE [pr EXCEPT !.pc = "lockInsert", !.b = b, !.up = up,
                                    !.before = states[pr.state], !.pkt = s.pkt]]
      /\ UNCHANGED <<streams, mutex>>
      /\ ReadersUnchanged

\* r.streamsMu.Lock() before InsertPacket.
InsertLock(p) ==
  /\ procs[p].pc = "lockInsert"
  /\ Lock(p)
  /\ procs' = [procs EXCEPT ![p].pc = "insert"]
  /\ UNCHANGED <<streams, states>>
  /\ ReadersUnchanged

\* state.packetBuffer.InsertPacket(bufferedPkt) and Unlock; without a frame the
\* read returns.
Insert(p) ==
  LET pr == procs[p]
  IN  /\ pr.pc = "insert"
      /\ LET ins == InsertPacket(states[pr.state].packetBuffer, pr.pkt)
             after == [states[pr.state] EXCEPT !.packetBuffer = ins.buffer]
         IN  /\ states' = [states EXCEPT ![pr.state] = after]
             /\ procs' = [procs EXCEPT ![p] =
                  IF Len(ins.Frames) = 0
                    THEN ReturnFromRead(pr, pr.up, pr.up.attrs, Nil, <<>>, pr.before, after)
                    ELSE [pr EXCEPT !.pc = "assemble", !.frames = ins.Frames, !.k = 1]]
      /\ Unlock
      /\ UNCHANGED streams
      /\ ReadersUnchanged

\* state.frameAssembler.AssembleFrame(framePackets) for the k-th frame.
Assemble(p) ==
  LET pr == procs[p]
      framePackets == pr.frames[pr.k]
  IN  /\ pr.pc = "assemble"
      /\ procs' = [procs EXCEPT ![p].pc = "lockManage",
                                ![p].frame =
                                   AssembleFrame(framePackets, states[pr.state].frameIDCounter)]
      /\ states' = [states EXCEPT ![pr.state].frameIDCounter = @ + 1]
      /\ UNCHANGED <<streams, mutex>>
      /\ ReadersUnchanged

\* r.streamsMu.Lock() before the reference finder is selected.
ManageLock(p) ==
  /\ procs[p].pc = "lockManage"
  /\ Lock(p)
  /\ procs' = [procs EXCEPT ![p].pc = "manage"]
  /\ UNCHANGED <<streams, states>>
  /\ ReadersUnchanged

\* selectRefFinderForFrame, ManageFrame and Unlock for the k-th frame; after
\* the last frame the attributes are set and the read returns.
Manage(p) ==
  LET pr == procs[p]
  IN  /\ pr.pc = "manage"
      /\ \E o \in ManageFrame(states[pr.state], pr.frame, pr.frames[pr.k][1].VideoHeader) :
           LET resolvedFrames == pr.resolved \o o.resolved
           IN  /\ states' = [states EXCEPT ![pr.state] = o.state]
               /\ procs' = [procs EXCEPT ![p] =
                    IF pr.k = Len(pr.frames)
                      THEN ReturnFromRead(pr, pr.up, SetEncodedFrames(pr.up.attrs, resolvedFrames),
                                          Nil, resolvedFrames, pr.before, o.state)
                      ELSE [pr EXCEPT !.pc = "assemble", !.k = @ + 1,
                                      !.resolved = resolvedFrames]]
      /\ Unlock
      /\ UNCHANGED streams
      /\ ReadersUnchanged

\* UnbindRemoteStream(info): r.streamsMu.Lock().
UnbindLock ==
  /\ procs["ctl"].pc = "idle"
  /\ procs["ctl"].removals < MaxRemovals
  /\ Lock("ctl")
  /\ \E ssrc \in {SSRC, SSRC + 1} :
       procs' = [procs EXCEPT !["ctl"].pc = "remove", !["ctl"].op = [ssrc |-> ssrc]]
  /\ UNCHANGED <<streams, states>>
  /\ ReadersUnchanged

\* Close: r.streamsMu.Lock().
CloseLock ==
  /\ procs["ctl"].pc = "idle"
  /\ procs["ctl"].removals < MaxRemovals
  /\ Lock("ctl")
  /\ procs' = [procs EXCEPT !["ctl"].pc = "remove", !["ctl"].op = [close |-> TRUE]]
  /\ UNCHANGED <<streams, states>>
  /\ ReadersUnchanged

\* delete(r.streams, info.SSRC) in UnbindRemoteStream, or r.streams replaced by
\* an empty map in Close, and the deferred Unlock. The stream states live on
\* in the readers that captured them.
Remove ==
  /\ procs["ctl"].pc = "remove"
  /\ streams' = IF "close" \in DOMAIN procs["ctl"].op THEN {}
                ELSE streams \ {procs["ctl"].op.ssrc}
  /\ procs' = [procs EXCEPT !["ctl"].pc = "idle", !["ctl"].op = Nil,
                            !["ctl"].removals = @ + 1]
  /\ Unlock
  /\ UNCHANGED states
  /\ ReadersUnchanged

ReadersNext ==
  \/ \E p \in Readers : BindLock(p)
  \/ \E p \in Readers : BindCreate(p)
  \/ \E p \in Readers : ReadUpstream(p)
  \/ \E p \in Readers : InsertLock(p)
  \/ \E p \in Readers : Insert(p)
  \/ \E p \in Readers : Assemble(p)
  \/ \E p \in Readers : ManageLock(p)
  \/ \E p \in Readers : Manage(p)
  \/ UnbindLock
  \/ CloseLock
  \/ Remove

SpecReaders == ReadersInit /\ [][ReadersNext]_vars

\* The goroutines inside a section of code that runs between Lock and Unlock.
InCritical == {p \in DOMAIN procs : procs[p].pc \in {"create", "insert", "manage", "remove"}}

\* C27: whenever a goroutine creates a stream state, inserts into a packet
\* buffer, selects a finder and calls ManageFrame, or removes state in unbind
\* or close, it holds the interceptor mutex, so no two goroutines are inside
\* such a section at the same time.
C27_MutexHeld ==
  /\ \A p \in InCritical : mutex = HeldBy(p)
  /\ \A p, q \in InCritical : p = q

\* One goroutine is inside ManageFrame while the other waits to insert.
C27_Witness ==
  /\ kind = "readers"
  /\ procs["a"].pc = "manage"
  /\ procs["b"].pc = "lockInsert"
  /\ mutex = HeldBy("a")

\* The keys of an attribute map; nil has none.
Keys(attrs) == IF attrs = Nil THEN {} ELSE DOMAIN attrs

\* The goroutines that have read, and for the i-th return of goroutine p what
\* the read returned and what the upstream reader had delivered.
Reading == Readers \cap DOMAIN procs

ReturnOf(p, i) == procs[p].returns[i]

ReadOf(p, i) == ScriptOf(p).reads[i]

\* C21: after a read, EncodedFramesKey is present only if the read resolved a
\* frame; it then holds exactly the frames this read resolved and
\* EncodedFrameKey holds the first of them, the other attributes being those of
\* the upstream reader. A read that resolves no frame returns the upstream
\* attributes as they are.
C21_EncodedFramesAttrs ==
  \A p \in Reading : \A i \in DOMAIN procs[p].returns :
    LET r == ReturnOf(p, i)
        given == ReadOf(p, i).attrs
    IN  IF r.resolved # <<>>
          THEN /\ Keys(r.attrs) = Keys(given) \cup {EncodedFramesKey, EncodedFrameKey}
               /\ r.attrs[EncodedFramesKey] = r.resolved
               /\ r.attrs[EncodedFrameKey] = r.resolved[1]
               /\ \A k \in Keys(given) : r.attrs[k] = given[k]
          ELSE /\ r.attrs = given
               /\ Keys(r.attrs) \cap {EncodedFramesKey, EncodedFrameKey} = {}

\* A read completed a frame that the finder kept back, so nil attributes came
\* back as nil, and the next read resolved two frames at once.
C21_Witness ==
  /\ kind = "readers"
  /\ stream["a"] = "reordered"
  /\ Len(procs["a"].returns) = 3
  /\ ReturnOf("a", 2).attrs = Nil
  /\ ReturnOf("a", 2).after.frameIDCounter = ReturnOf("a", 2).before.frameIDCounter + 1
  /\ Len(ReturnOf("a", 3).resolved) = 2
  /\ ReturnOf("a", 3).attrs[EncodedFrameKey] = ReturnOf("a", 3).resolved[1]

\* The packets of the sender that goroutine p has been given.
SentPackets(p) ==
  {ScriptOf(p).reads[i].sent : i \in {j \in DOMAIN ScriptOf(p).reads :
                                        ScriptOf(p).reads[j].kind = "packet"}}

SentWith(p, seq) == CHOOSE s \in SentPackets(p) : s.SequenceNumber = seq

RECURSIVE SentData(_, _, _)
\* The payloads the sender put into the count packets from sequence number
\* first on, one after the other.
SentData(p, first, count) ==
  IF count = 0 THEN <<>>
  ELSE SentData(p, first, count - 1) \o SentWith(p, (first + count - 1) % 65536).Payload

\* The frames goroutine p has been handed in the attributes so far.
FramesHandedTo(p) ==
  UNION {{ReturnOf(p, i).resolved[j] : j \in DOMAIN ReturnOf(p, i).resolved} :
           i \in DOMAIN procs[p].returns}

\* C22: the data of a published frame is the concatenation, in ascending
\* sequence order, of the payloads of its packets without the VP8 descriptor,
\* as they were in the read buffer when each packet was read; timestamp and
\* frame type are those of the first packet.
C22_FrameData ==
  \A p \in Reading : \A f \in FramesHandedTo(p) :
    LET firstPkt == SentWith(p, f.FirstSeqNum)
    IN  /\ f.Data = SentData(p, f.FirstSeqNum, ((f.LastSeqNum - f.FirstSeqNum) % 65536) + 1)
        /\ f.Timestamp = firstPkt.Timestamp
        /\ f.FrameType = IF firstPkt.Payload[1] % 2 = 0 THEN FrameTypeKey ELSE FrameTypeDelta

\* The key frame of two packets has been published with the data of both and
\* the read buffer has since been filled with the bytes of a later packet.
C22_Witness ==
  /\ kind = "readers"
  /\ stream["a"] = "plain"
  /\ Len(procs["a"].returns) = 4
  /\ \E f \in FramesHandedTo("a") :
       /\ f.FirstSeqNum = 65535 /\ f.LastSeqNum = 0
       /\ f.Data = <<16, 1, 2, 3, 4, 5, 6>>
       /\ f.FrameType = FrameTypeKey
  /\ SubSeq(procs["a"].b, 14, 16) = <<17, 7, 8>>

\* C24: a read whose bytes do not parse as RTP or whose VP8 descriptor does not
\* parse returns the byte count and the attributes of the upstream reader and
\* no error; a read on which the upstream reader returned an error returns that
\* error; in both cases the stream state is the same after the read as before.
C24_FailedReadPassesThrough ==
  \A p \in Reading : \A i \in DOMAIN procs[p].returns :
    LET r == ReturnOf(p, i)
        rd == ReadOf(p, i)
    IN  rd.kind # "packet" =>
          /\ r.n = Len(rd.bytes)
          /\ r.attrs = rd.attrs
          /\ r.err = rd.err
          /\ rd.kind \in {"rtp", "vp8"} => r.err = Nil
          /\ r.resolved = <<>>
          /\ r.after = r.before

\* Both kinds of failure happened on a stream that had a frame behind it: the
\* broken descriptor after the key frame, the upstream error at the end.
C24_Witness ==
  /\ kind = "readers"
  /\ stream["a"] = "layers"
  /\ Len(procs["a"].returns) = 4
  /\ ReturnOf("a", 2).before.vp8RefFinder # Nil
  /\ ReturnOf("a", 2).err = Nil /\ ReturnOf("a", 2).n = 15
  /\ ReturnOf("a", 4).err = [msg |-> "EOF"]
  /\ stream["b"] = "brokenB"
  /\ Len(procs["b"].returns) >= 1

\* One read of a stream that is read alone, in one piece: the possible stream
\* states after it and the frames it publishes.
SoloRead(state, rd) ==
  IF rd.kind # "packet" THEN {[state |-> state, published |-> <<>>]}
  ELSE {[state |-> o.state, published |-> o.published] : o \in Read(state, rd.sent)}

RECURSIVE SoloRun(_, _)
\* The first n reads of a stream that is read alone: the possible stream states
\* and, read by read, the frames published.
SoloRun(reads, n) ==
  IF n = 0 THEN {[state |-> NewStreamState, published |-> <<>>]}
  ELSE UNION {{[state |-> o.state, published |-> Append(before.published, o.published)] :
                 o \in SoloRead(before.state, reads[n])} :
              before \in SoloRun(reads, n - 1)}

\* C28: the frames published read by read on a stream (ids, references, data,
\* order) are those the same reads publish when the stream is read alone,
\* whatever is read on the stream with the other SSRC and however the steps of
\* the two goroutines interleave.
C28_StreamsIsolated ==
  \A p \in Reading :
    [i \in DOMAIN procs[p].returns |-> ReturnOf(p, i).resolved]
      \in {o.published : o \in SoloRun(ScriptOf(p).reads, Len(procs[p].returns))}

\* Both streams have published frames, and the first stream is in the middle
\* of a read, waiting for the mutex the second holds inside ManageFrame.
C28_Witness ==
  /\ kind = "readers"
  /\ procs["a"].pc = "lockManage"
  /\ procs["b"].pc = "manage"
  /\ Len(procs["a"].returns) >= 1 /\ ReturnOf("a", 1).resolved # <<>>
  /\ Len(procs["b"].returns) >= 1 /\ ReturnOf("b", 1).resolved # <<>>
  /\ procs["a"].state # procs["b"].state

\* The reads of goroutine p that have returned and delivered a packet, and the
\* value seqUnwrapper.unwrap returned for the packet of the i-th read.
PacketReads(p) == {i \in DOMAIN procs[p].returns : ReadOf(p, i).kind = "packet"}

UnwrappedAt(p, i) == ReturnOf(p, i).after.seqUnwrapper.lastSeq

\* C35: a published frame carries in FirstSeqNum and LastSeqNum the 16-bit
\* sequence numbers the sender wrote into its first and its last packet, which
\* are the unwrapped values modulo 2^16, and in FirstSeqNumUnwrapped and
\* LastSeqNumUnwrapped the values the sequence unwrapper returned for those two
\* packets.
C35_FrameSeqNums ==
  \A p \in Reading : \A f \in FramesHandedTo(p) :
    \E i, j \in PacketReads(p) :
      LET firstPkt == ReadOf(p, i).sent
          lastPkt == ReadOf(p, j).sent
      IN  /\ firstPkt.S = 1 /\ lastPkt.Marker
          /\ f.FirstSeqNum = firstPkt.SequenceNumber
          /\ f.LastSeqNum = lastPkt.SequenceNumber
          /\ Len(f.Data) >= Len(firstPkt.Payload) /\ Len(f.Data) >= Len(lastPkt.Payload)
          /\ SubSeq(f.Data, 1, Len(firstPkt.Payload)) = firstPkt.Payload
          /\ SubSeq(f.Data, Len(f.Data) - Len(lastPkt.Payload) + 1, Len(f.Data)) = lastPkt.Payload
          /\ f.FirstSeqNumUnwrapped = UnwrappedAt(p, i)
          /\ f.LastSeqNumUnwrapped = UnwrappedAt(p, j)
          /\ f.FirstSeqNum = f.FirstSeqNumUnwrapped % 65536
          /\ f.LastSeqNum = f.LastSeqNumUnwrapped % 65536

\* C39: after every InsertPacket call a packet in the buffer with Continuous
\* set has IsFirstPacketInFrame, or the packet with the sequence number before
\* its own is in the buffer, has the same timestamp and has Continuous set.
C39_ContinuousJustified ==
  \A i \in DOMAIN buffer :
    buffer[i] # Nil /\ buffer[i].Continuous =>
      \/ IsFirstPkt(buffer[i])
      \/ LET seq == buffer[i].SequenceNumber
             prev == buffer[seqNumToIndex(seq - 1)]
         IN  /\ ~slotMissing(buffer, seq - 1)
             /\ prev.Timestamp = buffer[i].Timestamp
             /\ prev.Continuous

(***************************************************************************)
(* Packet buffer given packets on both sides of sequence number zero       *)
(***************************************************************************)

\* Unwrapped sequence numbers below and above zero; -size - 1, -1 and
\* size - 1 share the last slot, and -2, -1, 0 are consecutive.
SlotSeqs == {-size - 1, -2, -1, 0, size - 1}

\* b.InsertPacket(pkt) for a packet with one of these sequence numbers and any
\* frame flags; arg keeps the packet given.
SlotsInsert ==
  \E seq \in SlotSeqs, h \in BufHeaders :
    LET pkt == BufferedPacket(seq, 1, <<>>, h, FALSE)
        r == InsertPacket(buffer, pkt)
    IN  /\ buffer' = r.buffer
        /\ result' = r.Frames
        /\ arg' = pkt
        /\ UNCHANGED <<kind, snf, fif, vpf, out, emitted, calls, lastOut, order,
                        callVars, streamVars, recvVars>>

SlotsNext == SlotsInsert

SpecSlots == BufInit /\ [][SlotsNext]_vars

\* The slots that hold a packet.
Occupied == {i \in DOMAIN buffer : buffer[i] # Nil}

\* C38: every occupied slot i holds a packet whose sequence number is
\* congruent to i modulo size, for negative sequence numbers too, so the
\* buffer holds at most size packets; and a packet the last call returned in a
\* frame is in no slot after the call.
C38_SlotOfSeq ==
  /\ \A i \in Occupied : (buffer[i].SequenceNumber - i) % size = 0
  /\ DOMAIN buffer = 0..(size - 1)
  /\ Cardinality(Occupied) <= size
  /\ \A n \in DOMAIN result : \A k \in DOMAIN result[n] :
       \A i \in Occupied : buffer[i].SequenceNumber # result[n][k].SequenceNumber

\* The last call returned the frame of packets -2, -1 and 0 and took them out
\* of slots size - 2, size - 1 and 0, which are empty now.
C38_Witness ==
  /\ arg # Nil
  /\ Len(result) = 1
  /\ [k \in DOMAIN result[1] |-> result[1][k].SequenceNumber] = <<-2, -1, 0>>
  /\ buffer[size - 2] = Nil /\ buffer[size - 1] = Nil /\ buffer[0] = Nil

(***************************************************************************)
(* The loops of InsertPacket and ManageFrame, iteration by iteration       *)
(***************************************************************************)

RECURSIVE extractFrameWalk(_, _, _, _)
\* The first loop of extractFrame with startSeqNum where it stands and the
\* iterations begun so far: how the loop ends and after how many iterations.
\* An iteration beyond size + 1 is not followed and reported as "running".
extractFrameWalk(buf, endSeqNum, startSeqNum, steps) ==
  IF steps > size + 1
    THEN [end |-> "running", start |-> startSeqNum, steps |-> steps]
  ELSE IF slotMissing(buf, startSeqNum)
    THEN [end |-> "missing", start |-> startSeqNum, steps |-> steps + 1]
  ELSE IF IsFirstPkt(buf[seqNumToIndex(startSeqNum)])
    THEN [end |-> "start", start |-> startSeqNum, steps |-> steps + 1]
  ELSE IF endSeqNum - (startSeqNum - 1) > size
    THEN [end |-> "guard", start |-> startSeqNum - 1, steps |-> steps + 1]
  ELSE extractFrameWalk(buf, endSeqNum, startSeqNum - 1, steps + 1)

RECURSIVE findFramesWalks(_, _, _)
\* The backward walks made by iterations i..size-1 of the scan loop of
\* findFrames, each with the sequence number it starts from and the buffer it
\* runs on.
findFramesWalks(st, seqNum, i) ==
  IF i = size THEN {}
  ELSE LET currentSeq == seqNum - (size \div 2) + i
           index == seqNumToIndex(currentSeq)
           marked == [st.buffer EXCEPT ![index].Continuous = TRUE]
           here == IF potentialNewFrame(st.buffer, currentSeq) /\ IsLastPkt(st.buffer[index])
                     THEN {[endSeqNum |-> currentSeq, buffer |-> marked,
                            walk |-> extractFrameWalk(marked, currentSeq, currentSeq, 0)]}
                     ELSE {}
           after == findFramesStep(st, currentSeq)
       IN  IF DOMAIN after.buffer = DOMAIN st.buffer
             THEN here \cup findFramesWalks(after, seqNum, i + 1)
             ELSE here

\* The backward walks of one InsertPacket call.
InsertPacketWalks(buf, pkt) ==
  LET seqNum == pkt.SequenceNumber
      index == seqNumToIndex(seqNum)
  IN  IF buf[index] # Nil /\ buf[index].SequenceNumber = seqNum THEN {}
      ELSE findFramesWalks([buffer |-> [buf EXCEPT ![index] = [pkt EXCEPT !.Continuous = FALSE]],
                            Frames |-> <<>>], seqNum, 0)

\* One pass of the inner loop of tryResolveStashedFrames that returns the
\* first frame it can resolve and leaves it in the stash.
SeqNumOnly_resolvePass_NoRemove(f) ==
  LET hits == {i \in 1..Len(f.stashedFrames) :
                 f.stashedFrames[i].frame.FirstSeqNumUnwrapped = f.lastFrameLastSeqNum + 1}
  IN  IF hits = {} THEN [f |-> f, out |-> <<>>, resolved |-> FALSE]
      ELSE LET i == CHOOSE h \in hits : \A g \in hits : h <= g
               frame == f.stashedFrames[i].frame
           IN  [f |-> SeqNumOnly_advance(f, frame),
                out |-> <<SeqNumOnly_resolve(f, frame)>>,
                resolved |-> TRUE]

\* One pass of the inner loop of SeqNumOnlyRefFinder.tryResolveStashedFrames:
\* it breaks at the first stashed frame that follows the last frame handled,
\* which it removes from the stash, or runs to the end and resolves nothing.
SeqNumOnly_resolvePass(f) ==
  LET hits == {i \in 1..Len(f.stashedFrames) :
                 f.stashedFrames[i].frame.FirstSeqNumUnwrapped = f.lastFrameLastSeqNum + 1}
  IN  IF hits = {} THEN [f |-> f, out |-> <<>>, resolved |-> FALSE]
      ELSE LET i == CHOOSE h \in hits : \A g \in hits : h <= g
               frame == f.stashedFrames[i].frame
           IN  [f |-> [SeqNumOnly_advance(f, frame) EXCEPT
                         !.stashedFrames = RemoveAt(f.stashedFrames, i)],
                out |-> <<SeqNumOnly_resolve(f, frame)>>,
                resolved |-> TRUE]

RECURSIVE SeqNumOnly_resolveLoop(_, _)
\* The outer loop of tryResolveStashedFrames, pass by pass: the finder and the
\* frames it ends with, the passes made, whether every resolving pass removed
\* one entry, and whether the loop stopped. A pass beyond maxStashedFrames + 1
\* is not followed.
SeqNumOnly_resolveLoop(f, passes) ==
  LET r == SeqNumOnly_resolvePass(f)
  IN  IF passes > maxStashedFrames
        THEN [f |-> f, out |-> <<>>, passes |-> passes, removing |-> TRUE, stopped |-> FALSE]
      ELSE IF ~r.resolved
        THEN [f |-> r.f, out |-> <<>>, passes |-> passes + 1, removing |-> TRUE, stopped |-> TRUE]
      ELSE LET n == SeqNumOnly_resolveLoop(r.f, passes + 1)
           IN  [f |-> n.f, out |-> r.out \o n.out, passes |-> n.passes,
                removing |-> n.removing /\ Len(r.f.stashedFrames) = Len(f.stashedFrames) - 1,
                stopped |-> n.stopped]

\* The finder as SeqNumOnlyRefFinder.ManageFrame hands it to
\* tryResolveStashedFrames, if it gets that far with this frame.
SeqNumOnly_resolveEntry(f, frame) ==
  IF frame.FrameType = FrameTypeKey
    THEN {SeqNumOnly_clearStashedFramesBefore(
            [f EXCEPT !.lastSeqNumGOP = frame.FirstSeqNumUnwrapped,
                      !.lastFrameFirstSeqNum = frame.FirstSeqNumUnwrapped,
                      !.lastFrameLastSeqNum = frame.LastSeqNumUnwrapped,
                      !.gotInitialFrame = TRUE],
            frame.FirstSeqNumUnwrapped)}
  ELSE IF f.gotInitialFrame /\ frame.FirstSeqNumUnwrapped = f.lastFrameLastSeqNum + 1
    THEN {SeqNumOnly_advance(f, frame)}
  ELSE {}

\* One pass of the inner loop of VP8RefFinder.tryResolveStashedFrames: the
\* outcomes of the first tryProcessStashedFrame that returns a frame, with the
\* entry removed, or nothing resolved.
VP8_resolvePass(f) ==
  LET hits == {i \in 1..Len(f.stashedFrames) :
                 \E o \in VP8_tryProcessStashedFrame(f, f.stashedFrames[i]) : Len(o.out) > 0}
  IN  IF hits = {} THEN {[f |-> f, out |-> <<>>, resolved |-> FALSE]}
      ELSE LET i == CHOOSE h \in hits : \A g \in hits : h <= g
           IN  {[f |-> [o.f EXCEPT !.stashedFrames = RemoveAt(f.stashedFrames, i)],
                 out |-> o.out,
                 resolved |-> TRUE] :
                  o \in {x \in VP8_tryProcessStashedFrame(f, f.stashedFrames[i]) : Len(x.out) > 0}}

RECURSIVE VP8_resolveLoop(_, _)
\* The outer loop of VP8RefFinder.tryResolveStashedFrames, pass by pass.
VP8_resolveLoop(f, passes) ==
  IF passes > maxStashedFrames
    THEN {[f |-> f, out |-> <<>>, passes |-> passes, removing |-> TRUE, stopped |-> FALSE]}
  ELSE UNION {
         IF ~r.resolved
           THEN {[f |-> r.f, out |-> <<>>, passes |-> passes + 1,
                  removing |-> TRUE, stopped |-> TRUE]}
           ELSE {[f |-> n.f, out |-> r.out \o n.out, passes |-> n.passes,
                  removing |-> n.removing
                                 /\ Len(r.f.stashedFrames) = Len(f.stashedFrames) - 1,
                  stopped |-> n.stopped] : n \in VP8_resolveLoop(r.f, passes + 1)} :
         r \in VP8_resolvePass(f)}

\* The finder as VP8RefFinder.ManageFrame hands it to tryResolveStashedFrames,
\* if it gets that far with this frame and header.
VP8_resolveEntry(f, frame, header) ==
  IF \/ header.TemporalIdx = NoTemporalIdx
     \/ header.TL0PicIdx = NoTL0PicIdx
     \/ header.PictureID = NoPictureID
    THEN {}
  ELSE LET wp == pictureID_Unwrap(f.pictureIDUnwrapper, header.PictureID)
           wt == tl0PicIdx_Unwrap(f.tl0Unwrapper, header.TL0PicIdx)
           f1 == [f EXCEPT !.pictureIDUnwrapper = wp.u, !.tl0Unwrapper = wt.u]
           tid == ClampTid(header)
           prevTL0 == IF tid = 0 THEN wt.value - 1 ELSE wt.value
       IN  IF wp.value < 0 \/ wt.value < 0 THEN {}
           ELSE IF frame.FrameType = FrameTypeKey /\ tid = 0
             THEN {VP8_clearOldState(
                     [VP8_initLayerInfo(f1, wt.value, wp.value) EXCEPT
                        !.lastPictureID = wp.value, !.gotInitialFrame = TRUE],
                     wt.value)}
           ELSE IF f1.gotInitialFrame
                   /\ VP8_getReferences(f1, wp.value, wt.value, prevTL0, tid) # {}
             THEN {[VP8_updateLayerInfo(f1, wt.value, tid, wp.value) EXCEPT
                      !.lastPictureID = wp.value]}
           ELSE {}

\* A packet buffer or a reference finder is constructed and driven directly.
LoopsInit == BufInit \/ FinderInit

LoopsInsert == kind = "none" /\ BufInsert

LoopsNext ==
  \/ LoopsInsert
  \/ SeqNumOnlyManage \/ FrameIdOnlyManage \/ VP8Manage
  \/ SeqNumOnlyClearTo \/ FrameIdOnlyClearTo \/ VP8ClearTo

SpecLoops == LoopsInit /\ [][LoopsNext]_vars

\* The packets and the frames with their headers that the next call can be given.
NextPackets ==
  {BufferedPacket(seq, ts, <<>>, h, FALSE) :
     seq \in BufSeqs, ts \in BufTimestamps, h \in BufHeaders}

NextSeqNumFrames ==
  {AssembledFrame(fl[1], fl[2], frameType) :
     fl \in {x \in FinderSeqs \X FinderSeqs : x[1] <= x[2]}, frameType \in FrameTypes}

NextVP8Frames ==
  {[frame |-> AssembledFrame(0, 0, frameType),
    header |-> FrameHeader(frameType, pictureID, tid, tl0)] :
     pictureID \in FinderPIDs, tid \in FinderTIDs, tl0 \in FinderTL0s, frameType \in FrameTypes}

\* A loop that stopped after one pass more than the frames it resolved, each
\* resolving pass having removed one entry of the stash it started with.
LoopEnded(l, entry) ==
  /\ l.stopped /\ l.removing
  /\ l.passes = Len(l.out) + 1
  /\ l.passes <= Len(entry.stashedFrames) + 1
  /\ Len(l.f.stashedFrames) = Len(entry.stashedFrames) - Len(l.out)

\* C37: from every reachable state the next InsertPacket or ManageFrame call
\* ends. Every backward walk of extractFrame ends within size + 1 iterations,
\* at a frame start, at a missing or mismatching slot, or by the size guard,
\* and only a walk that ended at a frame start goes on to return a frame. The
\* stash loops of SeqNumOnlyRefFinder and VP8RefFinder start a further pass
\* only after a pass that removed an entry, and stop with the first pass that
\* resolves nothing; what they leave is what ManageFrame leaves.
C37_CallsEnd ==
  /\ kind = "none" =>
       \A pkt \in NextPackets : \A w \in InsertPacketWalks(buffer, pkt) :
         /\ w.walk.end \in {"start", "missing", "guard"}
         /\ w.walk.steps <= size + 1
         /\ w.walk.end # "start" => extractFrame(w.buffer, w.endSeqNum) = <<>>
         /\ extractFrameStart(w.buffer, w.endSeqNum).found = (w.walk.end = "start")
         /\ w.walk.end = "start" => extractFrameStart(w.buffer, w.endSeqNum).start = w.walk.start
  /\ kind = "SeqNumOnly" /\ calls < MaxCalls =>
       \A frame \in NextSeqNumFrames : \A entry \in SeqNumOnly_resolveEntry(snf, frame) :
         LET l == SeqNumOnly_resolveLoop(entry, 0)
             header == FrameHeader(frame.FrameType, NoPictureID, NoTemporalIdx, NoTL0PicIdx)
         IN  /\ LoopEnded(l, entry)
             /\ \A r \in SeqNumOnly_ManageFrame(snf, frame, header) :
                  r.f = l.f /\ SubSeq(r.out, 2, Len(r.out)) = l.out
  /\ kind = "VP8" /\ calls < MaxCalls =>
       \A in \in NextVP8Frames : \A entry \in VP8_resolveEntry(vpf, in.frame, in.header) :
         /\ \A l \in VP8_resolveLoop(entry, 0) :
              /\ LoopEnded(l, entry)
              /\ \E r \in VP8_ManageFrame(vpf, in.frame, in.header) :
                   r.f = l.f /\ SubSeq(r.out, 2, Len(r.out)) = l.out
         /\ \A r \in VP8_ManageFrame(vpf, in.frame, in.header) :
              \E l \in VP8_resolveLoop(entry, 0) :
                r.f = l.f /\ SubSeq(r.out, 2, Len(r.out)) = l.out

\* The stash of a VP8RefFinder holds two frames that the key frame it is given
\* next resolves one after the other, in three passes.
C37_Witness ==
  /\ kind = "VP8" /\ calls < MaxCalls
  /\ Len(vpf.stashedFrames) = 2
  /\ \E in \in NextVP8Frames : \E entry \in VP8_resolveEntry(vpf, in.frame, in.header) :
       \E l \in VP8_resolveLoop(entry, 0) :
         /\ in.frame.FrameType = FrameTypeKey
         /\ l.passes = 3 /\ Len(l.out) = 2 /\ l.f.stashedFrames = <<>>

\* C40: VP8RefFinder.ManageFrame is deterministic. Two finders that have been
\* given the same frames and headers are in the same state (the finder is
\* constructed without arguments), so it is enough that from every state a
\* finder can reach, whatever frame and header comes next, every run of
\* ManageFrame returns the same frames with the same ids and references and
\* leaves the same state.
C40_ManageFrameDeterministic ==
  kind = "VP8" =>
    \A in \in NextVP8Frames :
      \A r1, r2 \in VP8_ManageFrame(vpf, in.frame, in.header) :
        r1.out = r2.out /\ r1.f = r2.f

(***************************************************************************)
(* One VideoFrameAssembler called from two goroutines                      *)
(***************************************************************************)

\* AssembleFrame calls each goroutine makes.
MaxAssembles == 2

\* A packet slice given to AssembleFrame: nil, or the packets it holds.
PacketSlice(isNil, packets) == [isNil |-> isNil, packets |-> packets]

\* len(packets); a nil slice has length 0.
SliceLen(slice) == IF slice.isNil THEN 0 ELSE Len(slice.packets)

\* The slices the goroutines pass: nil, empty, one packet without a video
\* header, and the two packets of a delta frame on either side of the wrap.
AssembleInputs ==
  {PacketSlice(TRUE, <<>>),
   PacketSlice(FALSE, <<>>),
   PacketSlice(FALSE, <<BufferedPacket(7, 3000, <<1>>, Nil, TRUE)>>),
   PacketSlice(FALSE,
     <<BufferedPacket(65535, 6000, <<2>>,
                      RTPVideoHeader(FrameTypeDelta, TRUE, FALSE, NoPictureID, NoTemporalIdx, NoTL0PicIdx),
                      FALSE),
       BufferedPacket(65536, 6000, <<3>>,
                      RTPVideoHeader(FrameTypeDelta, FALSE, TRUE, NoPictureID, NoTemporalIdx, NoTL0PicIdx),
                      TRUE)>>)}

\* atomic.Int64.Add that returns the new value and leaves the counter as it was.
AtomicAdd_NoStore(counter, delta) == [counter |-> counter, value |-> counter + delta]

\* atomic.Int64.Add: the counter after the call and the value returned, in one
\* indivisible step.
AtomicAdd(counter, delta) == [counter |-> counter + delta, value |-> counter + delta]

\* NewVideoFrameAssembler, and two goroutines that are about to call it.
AssembleInit ==
  /\ kind = "assembler"
  /\ frameIDCounter = 0
  /\ procs = [p \in Readers |-> [pc |-> "idle", packets |-> Nil, frameID |-> -1,
                                 given |-> <<>>, returns |-> <<>>]]
  /\ stream = "none"
  /\ streams = {}
  /\ interceptor = Nil
  /\ mutex = Nil
  /\ states = <<>>
  /\ seqUnwrapper = NewSequenceUnwrapper
  /\ published = <<>>
  /\ history = <<>>
  /\ buffer = NewVideoPacketBuffer
  /\ result = <<>>
  /\ snf = Nil
  /\ fif = Nil
  /\ vpf = Nil
  /\ out = <<>>
  /\ emitted = {}
  /\ calls = 0
  /\ lastOut = Nil
  /\ order = "none"
  /\ arg = Nil
  /\ NoCall
  /\ NoStream

AssembleUnchanged ==
  UNCHANGED <<bufVars, finderVars, callVars, streamVars,
              stream, streams, interceptor, mutex, states,
              seqUnwrapper, published, history>>

\* Goroutine p calls AssembleFrame: an empty or nil slice returns nil at once,
\* otherwise the payloads are concatenated, which touches no shared state.
AssembleCall(p) ==
  /\ kind = "assembler"
  /\ procs[p].pc = "idle"
  /\ Len(procs[p].returns) < MaxAssembles
  /\ \E slice \in AssembleInputs :
       procs' = [procs EXCEPT
                   ![p] = IF SliceLen(slice) = 0
                            THEN [@ EXCEPT !.given = Append(@, slice),
                                           !.returns = Append(@, AssembleFrame(<<>>, -1))]
                            ELSE [@ EXCEPT !.pc = "add", !.packets = slice.packets,
                                           !.given = Append(@, slice)]]
  /\ UNCHANGED frameIDCounter
  /\ AssembleUnchanged

\* frameID := a.frameIDCounter.Add(1) - 1
AssembleAdd(p) ==
  /\ kind = "assembler"
  /\ procs[p].pc = "add"
  /\ LET added == AtomicAdd(frameIDCounter, 1)
     IN  /\ frameIDCounter' = added.counter
         /\ procs' = [procs EXCEPT ![p].pc = "build", ![p].frameID = added.value - 1]
  /\ AssembleUnchanged

\* The frame is built with the id taken and returned.
AssembleReturn(p) ==
  /\ kind = "assembler"
  /\ procs[p].pc = "build"
  /\ procs' = [procs EXCEPT
                 ![p] = [@ EXCEPT !.pc = "idle", !.packets = Nil, !.frameID = -1,
                                  !.returns = Append(@, AssembleFrame(procs[p].packets,
                                                                      procs[p].frameID))]]
  /\ UNCHANGED frameIDCounter
  /\ AssembleUnchanged

AssembleNext ==
  \E p \in Readers : AssembleCall(p) \/ AssembleAdd(p) \/ AssembleReturn(p)

SpecAssemble == AssembleInit /\ [][AssembleNext]_vars

\* The calls of goroutine p that have returned a frame, the ids handed out to
\* the calls that have returned, and the ids taken by calls still running.
FrameCalls(p) == {i \in DOMAIN procs[p].returns : procs[p].returns[i] # Nil}

ReturnedIDs == UNION {{procs[p].returns[i].ID : i \in FrameCalls(p)} : p \in Readers}

TakenIDs == {procs[p].frameID : p \in {q \in Readers : procs[q].pc = "build"}}

\* C36: the ids handed out are 0, 1, 2, ... without a gap, one for each call
\* that assembled a frame; a call with an empty or nil slice returns nil and
\* takes no id; no two calls, of one goroutine or of two, get the same id.
C36_FrameIDs ==
  kind = "assembler" =>
    /\ ReturnedIDs \cup TakenIDs = 0..(frameIDCounter - 1)
    /\ Cardinality({<<p, i>> \in Readers \X (1..MaxAssembles) : i \in FrameCalls(p)})
         + Cardinality({p \in Readers : procs[p].pc = "build"}) = frameIDCounter
    /\ \A p \in Readers : \A i \in DOMAIN procs[p].returns :
         /\ procs[p].returns[i] = Nil <=> SliceLen(procs[p].given[i]) = 0
         /\ \A j \in FrameCalls(p) : i \in FrameCalls(p) /\ i < j =>
              procs[p].returns[i].ID < procs[p].returns[j].ID

\* Both goroutines were inside AssembleFrame at once and have their frames,
\* with ids 0 and 1, after one of them had got nil for a nil slice.
C36_Witness ==
  /\ kind = "assembler"
  /\ Len(procs["a"].returns) = 2 /\ procs["a"].returns[1] = Nil
  /\ procs["a"].given[1] = PacketSlice(TRUE, <<>>)
  /\ procs["a"].returns[2] # Nil /\ procs["a"].returns[2].ID = 1
  /\ procs["b"].pc = "build" /\ procs["b"].frameID = 0
  /\ frameIDCounter = 2

(***************************************************************************)
(* Selection of the reference finder for a frame                           *)
(***************************************************************************)

\* Selections made on one stream.
MaxSelects == 2

\* The headers a frame can be selected for, nil included: each of picture id,
\* temporal index and TL0PICIDX absent, zero or some other value.
SelectHeaders ==
  {Nil} \cup {RTPVideoHeader(t, TRUE, l, p, tid, tl0) :
                t \in FrameTypes, l \in BOOLEAN, p \in {NoPictureID, 0, 5},
                tid \in {NoTemporalIdx, 0, 3}, tl0 \in {NoTL0PicIdx, 0, 9}}

\* A stream state whose finders are all still nil.
SelectInit ==
  /\ buffer = NewVideoPacketBuffer
  /\ result = <<>>
  /\ kind = "select"
  /\ snf = NewStreamState.seqNumOnlyRefFinder
  /\ fif = NewStreamState.frameIdOnlyRefFinder
  /\ vpf = NewStreamState.vp8RefFinder
  /\ out = <<>>
  /\ emitted = {}
  /\ calls = 0
  /\ lastOut = Nil
  /\ order = "none"
  /\ arg = Nil
  /\ NoCall
  /\ NoStream
  /\ NoReceiver

\* r.selectRefFinderForFrame(state, header): ret is the type of the finder
\* returned, and the finder is created in the stream state if it was nil.
SelectFinder ==
  /\ kind = "select"
  /\ calls < MaxSelects
  /\ \E header \in SelectHeaders :
       LET state == [NewStreamState EXCEPT !.seqNumOnlyRefFinder = snf,
                                           !.frameIdOnlyRefFinder = fif,
                                           !.vp8RefFinder = vpf]
           st == selectRefFinderForFrame(state, header)
       IN  /\ arg' = [header |-> header]
           /\ ret' = SelectRefFinderType(header)
           /\ snf' = st.seqNumOnlyRefFinder
           /\ fif' = st.frameIdOnlyRefFinder
           /\ vpf' = st.vp8RefFinder
  /\ calls' = calls + 1
  /\ UNCHANGED <<bufVars, kind, out, emitted, lastOut, order, unwrapper, streamVars, recvVars>>

SelectNext == SelectFinder

SpecSelect == SelectInit /\ [][SelectNext]_vars

\* Which fields the header given to the last selection carries.
HasPictureID == arg.header # Nil /\ arg.header.PictureID # NoPictureID
HasTemporalIdx == arg.header # Nil /\ arg.header.TemporalIdx # NoTemporalIdx
HasTL0PicIdx == arg.header # Nil /\ arg.header.TL0PicIdx # NoTL0PicIdx

\* C20: the finder selected for a frame depends on the header alone: the VP8
\* finder iff picture id, temporal index and TL0PICIDX are all present, the
\* FrameIdOnly finder iff the picture id is present and the temporal index or
\* the TL0PICIDX is absent, the SeqNumOnly finder in every other case, a nil
\* header included; the finder selected exists afterwards.
C20_FinderSelection ==
  (kind = "select" /\ calls > 0) =>
    /\ ret = "RefFinderVP8" <=> (HasPictureID /\ HasTemporalIdx /\ HasTL0PicIdx)
    /\ ret = "RefFinderFrameIDOnly" <=> (HasPictureID /\ ~(HasTemporalIdx /\ HasTL0PicIdx))
    /\ ret = "RefFinderSeqNumOnly" <=> ~HasPictureID
    /\ ret = "RefFinderVP8" => vpf = NewVP8RefFinder
    /\ ret = "RefFinderFrameIDOnly" => fif = NewFrameIdOnlyRefFinder
    /\ ret = "RefFinderSeqNumOnly" => snf = NewSeqNumOnlyRefFinder

\* A header with picture id and temporal index but no TL0PICIDX selected the
\* FrameIdOnly finder after another finder had been selected on the stream.
C20_Witness ==
  /\ kind = "select"
  /\ calls = MaxSelects
  /\ HasPictureID /\ HasTemporalIdx /\ ~HasTL0PicIdx
  /\ ret = "RefFinderFrameIDOnly"
  /\ fif # Nil
  /\ (snf # Nil \/ vpf # Nil)

\* C11: no two distinct frames published on one stream carry the same id,
\* whichever reference finders handled them.
C11_UniqueIds ==
  \A i, j \in DOMAIN AllPublished :
    AllPublished[i].Data # AllPublished[j].Data => AllPublished[i].ID # AllPublished[j].ID

\* C12: a read that takes place after UnbindRemoteStream for the stream, or
\* Close, has returned publishes no frame; in particular no frame that was
\* stashed at that moment is published later.
C12_NoEmissionAfterUnbind ==
  \A n \in DOMAIN history : ~history[n].bound => history[n].published = <<>>

====
